---- MODULE Spec2Model ----
(***************************************************************************)
(* Model of the aigo-kode agent runtime: the core Session (conversation    *)
(* history, Query, ExecuteTool), the tool contract with the registry's     *)
(* tools, and the two hosts that drive the session (the CLI Update handler *)
(* and the web server's handlers).                                         *)
(*                                                                         *)
(* Go strings are sequences of chunks.  A string whose text the code       *)
(* inspects (a command, a path, file content) is a sequence of             *)
(* one-character chunks; a string the code only stores or compares may be  *)
(* a single chunk.  Tool names, roles and error texts are TLA+ strings.    *)
(* A value of dynamic type (interface{}) is a record whose only field      *)
(* names its Go type.                                                      *)
(***************************************************************************)
EXTENDS Integers, Sequences, FiniteSets, TLC

VARIABLES
    Messages,   \* Session.Messages: the conversation history
    Model,      \* Session.Model: NoModel or the name of the client
    Tools,      \* Session.Tools: sequence of tools (a tool is its Name())
    Config,     \* Session.Config
    fs,         \* the filesystem: path -> node
    pc,         \* position of the host's turn: "idle" = awaiting user input
    host,       \* who drives the session: "library", "cli" or "server"
    resp,       \* the host's local variable resp (last Query response)
    tcIdx,      \* index of the next tool call of resp.ToolCalls to execute
    hostErr,    \* m.err of the CLI / the error body of the HTTP reply
    turn,       \* record of the current turn: base length, invocations
    lastOp,     \* the operation the last step performed, with its arguments
    ret,        \* what that operation returned
    calls,      \* the calls to the model client and to tool methods it made
    proc        \* one run of BashTool.Execute seen from the operating system

sessionVars == <<Messages, Model, Tools, Config, pc, host, resp, tcIdx,
                 hostErr, turn>>
vars == <<sessionVars, fs, lastOp, ret, calls, proc>>

----------------------------------------------------------------------------
(* Bounds of the exploration *)

MaxMessages == 4     \* longest history a library caller builds
MaxTurnStart == 2    \* longest history at which the CLI starts a turn
MaxToolCalls == 2    \* most tool calls in one model response

----------------------------------------------------------------------------
(* Dynamically typed Go values *)

StrV(s) == [str |-> s]
IntV(n) == [int |-> n]
Float64V(n) == [float64 |-> n]
BoolV(b) == [bool |-> b]
Nil == [nil |-> TRUE]

IsString(v) == DOMAIN v = {"str"}
IsInt(v) == DOMAIN v = {"int"}
IsFloat64(v) == DOMAIN v = {"float64"}
IsBool(v) == DOMAIN v = {"bool"}

\* the nil error
NilError == "<nil>"

\* the map lookup  v, ok := input[k]
HasKey(input, k) == k \in DOMAIN input

\* the type assertion  s, ok := input[k].(string)
AsString(input, k) ==
    IF HasKey(input, k) /\ IsString(input[k])
    THEN [ok |-> TRUE, v |-> input[k].str]
    ELSE [ok |-> FALSE, v |-> <<>>]

\* the type assertion  n, ok := input[k].(int)
AsInt(input, k) ==
    IF HasKey(input, k) /\ IsInt(input[k])
    THEN [ok |-> TRUE, v |-> input[k].int]
    ELSE [ok |-> FALSE, v |-> 0]

\* the empty map
EmptyInput == [k \in {} |-> Nil]

\* strings.Contains(s, sub)
Contains(s, sub) ==
    \E i \in 0..(Len(s) - Len(sub)) :
        \A j \in 1..Len(sub) : s[i + j] = sub[j]

----------------------------------------------------------------------------
(* ThinkTool *)

ThinkValidateInput(input) ==
    IF ~HasKey(input, "prompt") THEN "prompt is required"
    ELSE IF ~IsString(input["prompt"]) THEN "prompt must be a string"
    ELSE IF input["prompt"].str = <<>> THEN "prompt cannot be empty"
    ELSE NilError

\* what tool.Execute returns, with the filesystem it leaves
Executed(output, err, fsys) == [output |-> output, err |-> err, fs |-> fsys]

ThinkExecute(input, fsys) ==
    LET prompt == AsString(input, "prompt") IN
    IF ~prompt.ok \/ prompt.v = <<>>
    THEN Executed(Nil, "prompt is required and must be a string", fsys)
    ELSE Executed([Reasoning |-> prompt.v], NilError, fsys)

----------------------------------------------------------------------------
(* BashTool *)

bannedCommands ==
    << <<"r", "m", " ", "-", "r", "f", " ", "/">>,
       <<"r", "m", " ", "-", "r", "f", " ", "/", "*">>,
       <<":", "(", ")", "{", " ", ":", "|", ":", "&", " ", "}", ";", ":">>,
       <<">", " ", "/", "d", "e", "v", "/", "s", "d", "a">>,
       <<"d", "d", " ", "i", "f", "=", "/", "d", "e", "v", "/", "r", "a", "n", "d", "o", "m", " ", "o", "f", "=", "/", "d", "e", "v", "/", "s", "d", "a">>,
       <<"m", "v", " ", "/", "*", " ", "/", "d", "e", "v", "/", "n", "u", "l", "l">>,
       <<"w", "g", "e", "t", " ", "-", "O", "-", " ", "h", "t", "t", "p", ":", "/", "/", "e", "x", "a", "m", "p", "l", "e", ".", "c", "o", "m", "/", "s", "c", "r", "i", "p", "t", ".", "s", "h", " ", "|", " ", "b", "a", "s", "h">>,
       <<"c", "u", "r", "l", " ", "-", "s", " ", "h", "t", "t", "p", ":", "/", "/", "e", "x", "a", "m", "p", "l", "e", ".", "c", "o", "m", "/", "s", "c", "r", "i", "p", "t", ".", "s", "h", " ", "|", " ", "b", "a", "s", "h">> >>

\* ValidateInput that refuses only a command that starts with a deny-list
\* entry
BashValidateInputPrefix(input) ==
    IF ~HasKey(input, "command") THEN "command is required"
    ELSE IF ~IsString(input["command"]) THEN "command must be a string"
    ELSE IF input["command"].str = <<>> THEN "command cannot be empty"
    ELSE IF \E i \in 1..Len(bannedCommands) :
                /\ Len(input["command"].str) >= Len(bannedCommands[i])
                /\ SubSeq(input["command"].str, 1, Len(bannedCommands[i]))
                       = bannedCommands[i]
         THEN "command contains potentially dangerous operations"
    ELSE IF HasKey(input, "timeout")
         THEN IF ~IsInt(input["timeout"]) THEN "timeout must be an integer"
              ELSE IF input["timeout"].int <= 0 THEN "timeout must be positive"
              ELSE IF input["timeout"].int > 300
                   THEN "timeout cannot exceed 300 seconds"
              ELSE NilError
    ELSE NilError

BashValidateInput(input) ==
    IF ~HasKey(input, "command") THEN "command is required"
    ELSE IF ~IsString(input["command"]) THEN "command must be a string"
    ELSE IF input["command"].str = <<>> THEN "command cannot be empty"
    ELSE IF \E i \in 1..Len(bannedCommands) :
                Contains(input["command"].str, bannedCommands[i])
         THEN "command contains potentially dangerous operations"
    ELSE IF HasKey(input, "timeout")
         THEN IF ~IsInt(input["timeout"]) THEN "timeout must be an integer"
              ELSE IF input["timeout"].int <= 0 THEN "timeout must be positive"
              ELSE IF input["timeout"].int > 300
                   THEN "timeout cannot exceed 300 seconds"
              ELSE NilError
    ELSE NilError

timedOutNotice ==
    <<"\n", "C", "o", "m", "m", "a", "n", "d", " ", "e", "x", "e", "c", "u", "t", "i", "o", "n", " ", "t", "i", "m", "e", "d", " ", "o", "u", "t">>

(* What the operating system does with one run of the subprocess:          *)
(*   fail    the step that fails before the process runs ("none" if none)  *)
(*   stdout, stderr   what ReadAll reads from the two pipes                *)
(*   wait    the kind of error cmd.Wait returns: "nil", "ExitError",       *)
(*           "DeadlineExceeded"                                            *)
(*   status  the exit status an ExitError carries                          *)
BashRun(fail, stdout, stderr, wait, status) ==
    [fail |-> fail, stdout |-> stdout, stderr |-> stderr,
     wait |-> wait, status |-> status]

\* timeout := 30 * time.Second, replaced by a positive int "timeout" input
defaultTimeout == 30
BashTimeout(input) ==
    IF AsInt(input, "timeout").ok /\ AsInt(input, "timeout").v > 0
    THEN AsInt(input, "timeout").v ELSE defaultTimeout

BashToolOutput(stdout, stderr, exitCode, interrupted) ==
    [Stdout |-> stdout, Stderr |-> stderr, ExitCode |-> exitCode,
     Interrupted |-> interrupted]

BashExecute(input, fsys, run) ==
    LET command == AsString(input, "command") IN
    IF ~command.ok \/ command.v = <<>>
    THEN Executed(Nil, "command is required and must be a string", fsys)
    ELSE IF run.fail # "none"
    THEN Executed(Nil, run.fail, fsys)
    ELSE IF run.wait = "ExitError"
    THEN Executed(BashToolOutput(run.stdout, run.stderr, run.status, FALSE),
                  NilError, fsys)
    ELSE IF run.wait = "DeadlineExceeded"
    THEN Executed(BashToolOutput(run.stdout, run.stderr \o timedOutNotice,
                                 0, TRUE),
                  NilError, fsys)
    ELSE Executed(BashToolOutput(run.stdout, run.stderr, 0, FALSE),
                  NilError, fsys)

----------------------------------------------------------------------------
(* The filesystem: fs maps every existing path to its node.  Paths are     *)
(* clean relative paths below the working directory ".".                   *)

FileNode(content) == [kind |-> "file", content |-> content]
DirNode == [kind |-> "dir", content |-> <<>>]
Dot == <<".">>

\* os.Stat(path) succeeds
Exists(fsys, path) == path \in DOMAIN fsys
IsDir(fsys, path) == Exists(fsys, path) /\ fsys[path].kind = "dir"

\* strings.LastIndex for a one-character separator, 1-based, 0 when absent
LastIndex(s, c) ==
    IF \E i \in 1..Len(s) : s[i] = c
    THEN CHOOSE i \in 1..Len(s) : s[i] = c /\ \A j \in (i+1)..Len(s) : s[j] # c
    ELSE 0

\* filepath.Dir, filepath.Base and filepath.Ext of a clean path
PathDir(path) ==
    LET i == LastIndex(path, "/") IN
    IF i = 0 THEN Dot
    ELSE IF i = 1 THEN <<"/">>
    ELSE SubSeq(path, 1, i - 1)

PathBase(path) ==
    IF path = <<>> THEN Dot
    ELSE SubSeq(path, LastIndex(path, "/") + 1, Len(path))

PathExt(path) ==
    LET base == SubSeq(path, LastIndex(path, "/") + 1, Len(path))
        i == LastIndex(base, ".")
    IN IF i = 0 THEN <<>> ELSE SubSeq(base, i, Len(base))

\* filepath.Join(dir, name)
PathJoin(dir, name) == IF dir = Dot THEN name ELSE dir \o <<"/">> \o name

upperCase == <<"A", "B", "C", "D", "E", "F", "G", "H", "I", "J", "K", "L", "M",
               "N", "O", "P", "Q", "R", "S", "T", "U", "V", "W", "X", "Y", "Z">>
lowerCase == <<"a", "b", "c", "d", "e", "f", "g", "h", "i", "j", "k", "l", "m",
               "n", "o", "p", "q", "r", "s", "t", "u", "v", "w", "x", "y", "z">>

\* strings.ToLower
ToLower(s) ==
    [i \in 1..Len(s) |->
        IF \E k \in 1..Len(upperCase) : upperCase[k] = s[i]
        THEN lowerCase[CHOOSE k \in 1..Len(upperCase) : upperCase[k] = s[i]]
        ELSE s[i]]

\* strings.Split(s, "\n")
RECURSIVE Split(_)
Split(s) ==
    IF \E i \in 1..Len(s) : s[i] = "\n"
    THEN LET i == CHOOSE k \in 1..Len(s) :
                      s[k] = "\n" /\ \A j \in 1..(k-1) : s[j] # "\n"
         IN <<SubSeq(s, 1, i - 1)>> \o Split(SubSeq(s, i + 1, Len(s)))
    ELSE <<s>>

\* strings.Join(lines, "\n")
RECURSIVE Join(_)
Join(lines) ==
    IF lines = <<>> THEN <<>>
    ELSE IF Len(lines) = 1 THEN lines[1]
    ELSE lines[1] \o <<"\n">> \o Join(Tail(lines))

\* os.MkdirAll(dir): every missing ancestor becomes a directory; fails when
\* an ancestor exists and is not a directory
RECURSIVE MkdirAll(_, _)
MkdirAll(fsys, dir) ==
    IF Exists(fsys, dir)
    THEN [ok |-> fsys[dir].kind = "dir", fs |-> fsys]
    ELSE LET up == MkdirAll(fsys, PathDir(dir)) IN
         IF ~up.ok THEN up
         ELSE [ok |-> TRUE,
               fs |-> [q \in DOMAIN up.fs \cup {dir} |->
                          IF q = dir THEN DirNode ELSE up.fs[q]]]

\* os.WriteFile / os.OpenFile(O_APPEND|O_CREATE) + WriteString
WriteFile(fsys, path, content, append) ==
    IF IsDir(fsys, path) \/ ~IsDir(fsys, PathDir(path))
    THEN [ok |-> FALSE, fs |-> fsys]
    ELSE [ok |-> TRUE,
          fs |-> [q \in DOMAIN fsys \cup {path} |->
                     IF q # path THEN fsys[q]
                     ELSE IF append /\ Exists(fsys, path)
                     THEN FileNode(fsys[path].content \o content)
                     ELSE FileNode(content)]]

----------------------------------------------------------------------------
(* FileReadTool *)

FileReadValidateInput(input) ==
    IF ~HasKey(input, "file_path") THEN "file_path is required"
    ELSE IF ~IsString(input["file_path"]) THEN "file_path must be a string"
    ELSE IF input["file_path"].str = <<>> THEN "file_path cannot be empty"
    ELSE IF HasKey(input, "offset") /\ ~IsFloat64(input["offset"])
         THEN "offset must be a number"
    ELSE IF HasKey(input, "offset") /\ input["offset"].float64 < 0
         THEN "offset must be non-negative"
    ELSE IF HasKey(input, "limit") /\ ~IsFloat64(input["limit"])
         THEN "limit must be a number"
    ELSE IF HasKey(input, "limit") /\ input["limit"].float64 <= 0
         THEN "limit must be positive"
    ELSE NilError

imageExts == { <<".", "p", "n", "g">>, <<".", "j", "p", "g">>,
               <<".", "j", "p", "e", "g">>, <<".", "g", "i", "f">>,
               <<".", "b", "m", "p">>, <<".", "w", "e", "b", "p">> }

FileReadOutput(type, content, error) ==
    [Type |-> type, Content |-> content, Error |-> error]

\* if offset > 0 && offset < len(lines) { lines = lines[offset:] }
OffsetLines(lines, offset) ==
    IF offset > 0 /\ offset < Len(lines)
    THEN SubSeq(lines, offset + 1, Len(lines)) ELSE lines

\* if limit > 0 && limit < len(lines) { lines = lines[:limit] }
LimitLines(lines, limit) ==
    IF limit > 0 /\ limit < Len(lines) THEN SubSeq(lines, 1, limit) ELSE lines

FileReadExecute(input, fsys) ==
    LET filePath == AsString(input, "file_path")
        offset == IF HasKey(input, "offset") /\ IsFloat64(input["offset"])
                  THEN input["offset"].float64 ELSE 0
        limit == IF HasKey(input, "limit") /\ IsFloat64(input["limit"])
                 THEN input["limit"].float64 ELSE 0
    IN
    IF ~filePath.ok \/ filePath.v = <<>>
    THEN Executed(Nil, "file_path is required and must be a string", fsys)
    ELSE IF ~Exists(fsys, filePath.v)
    THEN Executed(FileReadOutput("error", <<>>, "File does not exist"),
                  NilError, fsys)
    ELSE IF ToLower(PathExt(filePath.v)) \in imageExts
    THEN Executed(FileReadOutput("image", <<>>, ""), NilError, fsys)
    ELSE IF fsys[filePath.v].kind # "file"
    THEN Executed(FileReadOutput("error", <<>>, "read: is a directory"),
                  NilError, fsys)
    ELSE Executed(FileReadOutput("text",
                      Join(LimitLines(OffsetLines(
                          Split(fsys[filePath.v].content), offset), limit)),
                      ""),
                  NilError, fsys)

----------------------------------------------------------------------------
(* FileWriteTool *)

FileWriteValidateInput(input) ==
    IF ~HasKey(input, "file_path") THEN "file_path is required"
    ELSE IF ~IsString(input["file_path"]) THEN "file_path must be a string"
    ELSE IF input["file_path"].str = <<>> THEN "file_path cannot be empty"
    ELSE IF ~HasKey(input, "content") THEN "content is required"
    ELSE IF ~IsString(input["content"]) THEN "content must be a string"
    ELSE IF HasKey(input, "append") /\ ~IsBool(input["append"])
         THEN "append must be a boolean"
    ELSE IF HasKey(input, "leading_newline") /\ ~IsBool(input["leading_newline"])
         THEN "leading_newline must be a boolean"
    ELSE IF HasKey(input, "trailing_newline") /\ ~IsBool(input["trailing_newline"])
         THEN "trailing_newline must be a boolean"
    ELSE NilError

\* v := dflt; if b, ok := input[k].(bool); ok { v = b }
BoolOr(input, k, dflt) ==
    IF HasKey(input, k) /\ IsBool(input[k]) THEN input[k].bool ELSE dflt

FileWriteToolOutput(success, error) == [Success |-> success, Error |-> error]

\* the end of FileWriteTool.Execute, after the write returned wr
FileWriteWritten(wr) ==
    IF ~wr.ok
    THEN Executed(FileWriteToolOutput(FALSE, "is a directory"), NilError, wr.fs)
    ELSE Executed(FileWriteToolOutput(TRUE, ""), NilError, wr.fs)

\* the part of FileWriteTool.Execute after os.MkdirAll returned mk
FileWriteInDir(mk, filePath, content, append) ==
    IF ~mk.ok
    THEN Executed(FileWriteToolOutput(FALSE,
                      "Failed to create directory: not a directory"),
                  NilError, mk.fs)
    ELSE FileWriteWritten(WriteFile(mk.fs, filePath, content, append))

\* Execute that writes the content as given, with no newline added
FileWriteExecuteBare(input, fsys) ==
    LET filePath == AsString(input, "file_path")
        content == AsString(input, "content")
        append == BoolOr(input, "append", FALSE)
    IN
    IF ~filePath.ok \/ filePath.v = <<>>
    THEN Executed(Nil, "file_path is required and must be a string", fsys)
    ELSE IF ~content.ok
    THEN Executed(Nil, "content is required and must be a string", fsys)
    ELSE FileWriteInDir(MkdirAll(fsys, PathDir(filePath.v)), filePath.v,
                        content.v, append)

FileWriteExecute(input, fsys) ==
    LET filePath == AsString(input, "file_path")
        content == AsString(input, "content")
        append == BoolOr(input, "append", FALSE)
        leadingNewline == BoolOr(input, "leading_newline", append)
        trailingNewline == BoolOr(input, "trailing_newline", TRUE)
    IN
    IF ~filePath.ok \/ filePath.v = <<>>
    THEN Executed(Nil, "file_path is required and must be a string", fsys)
    ELSE IF ~content.ok
    THEN Executed(Nil, "content is required and must be a string", fsys)
    ELSE FileWriteInDir(
             MkdirAll(fsys, PathDir(filePath.v)), filePath.v,
             (IF leadingNewline THEN <<"\n">> ELSE <<>>) \o content.v
                 \o (IF trailingNewline /\ ~append THEN <<"\n">> ELSE <<>>),
             append)

----------------------------------------------------------------------------
(* FileEditTool *)

FileEditValidateInput(input, fsys) ==
    IF ~HasKey(input, "file_path") THEN "file_path is required"
    ELSE IF ~IsString(input["file_path"]) THEN "file_path must be a string"
    ELSE IF input["file_path"].str = <<>> THEN "file_path cannot be empty"
    ELSE IF ~Exists(fsys, input["file_path"].str) THEN "file does not exist"
    ELSE IF ~HasKey(input, "old_text") THEN "old_text is required"
    ELSE IF ~IsString(input["old_text"]) THEN "old_text must be a string"
    ELSE IF input["old_text"].str = <<>> THEN "old_text cannot be empty"
    ELSE IF ~HasKey(input, "new_text") THEN "new_text is required"
    ELSE IF ~IsString(input["new_text"]) THEN "new_text must be a string"
    ELSE NilError

\* strings.Index(s, sub), 1-based, 0 when absent
Index(s, sub) ==
    IF Contains(s, sub)
    THEN CHOOSE i \in 1..(Len(s) - Len(sub) + 1) :
             /\ SubSeq(s, i, i + Len(sub) - 1) = sub
             /\ \A k \in 1..(i-1) : SubSeq(s, k, k + Len(sub) - 1) # sub
    ELSE 0

\* strings.Replace(s, old, new, -1) for a non-empty old
RECURSIVE Replace(_, _, _)
Replace(s, old, new) ==
    IF Index(s, old) = 0 THEN s
    ELSE SubSeq(s, 1, Index(s, old) - 1) \o new
             \o Replace(SubSeq(s, Index(s, old) + Len(old), Len(s)), old, new)

FileEditToolOutput(success, error) == [Success |-> success, Error |-> error]

\* FileEditTool.Execute that writes the file back whether or not the text
\* changed
FileEditReplacedAlways(fsys, filePath, newContent) ==
    Executed(FileEditToolOutput(TRUE, ""), NilError,
             WriteFile(fsys, filePath, newContent, FALSE).fs)

\* the part of FileEditTool.Execute after strings.Replace returned newContent
FileEditReplaced(fsys, filePath, newContent) ==
    IF newContent = fsys[filePath].content
    THEN Executed(FileEditToolOutput(FALSE, "Old text not found in file"),
                  NilError, fsys)
    ELSE Executed(FileEditToolOutput(TRUE, ""), NilError,
                  WriteFile(fsys, filePath, newContent, FALSE).fs)

FileEditExecute(input, fsys) ==
    LET filePath == AsString(input, "file_path")
        oldText == AsString(input, "old_text")
        newText == AsString(input, "new_text")
    IN
    IF ~filePath.ok \/ filePath.v = <<>>
    THEN Executed(Nil, "file_path is required and must be a string", fsys)
    ELSE IF ~oldText.ok \/ oldText.v = <<>>
    THEN Executed(Nil, "old_text is required and must be a string", fsys)
    ELSE IF ~newText.ok
    THEN Executed(Nil, "new_text is required and must be a string", fsys)
    ELSE IF ~Exists(fsys, filePath.v)
    THEN Executed(FileEditToolOutput(FALSE,
                      "Failed to read file: no such file or directory"),
                  NilError, fsys)
    ELSE IF fsys[filePath.v].kind # "file"
    THEN Executed(FileEditToolOutput(FALSE,
                      "Failed to read file: is a directory"),
                  NilError, fsys)
    ELSE FileEditReplaced(fsys, filePath.v,
                          Replace(fsys[filePath.v].content, oldText.v, newText.v))

----------------------------------------------------------------------------
(* LSTool *)

\* byte order of the characters that occur in names
byteOrder == <<".", "/">> \o upperCase \o lowerCase

CharRank(c) == CHOOSE k \in 1..Len(byteOrder) : byteOrder[k] = c

\* a < b for Go strings
StrLess(a, b) ==
    \E i \in 1..(Len(b)) :
        /\ \A j \in 1..(i-1) : j <= Len(a) /\ a[j] = b[j]
        /\ \/ i = Len(a) + 1
           \/ i <= Len(a) /\ CharRank(a[i]) < CharRank(b[i])

\* ioutil.ReadDir(dir): the paths of the directory's entries, sorted by
\* filename
RECURSIVE SortedPaths(_)
SortedPaths(S) ==
    IF S = {} THEN <<>>
    ELSE LET m == CHOOSE p \in S :
                      \A q \in S \ {p} : StrLess(PathBase(p), PathBase(q))
         IN <<m>> \o SortedPaths(S \ {m})

ReadDir(fsys, dir) ==
    SortedPaths({p \in DOMAIN fsys : p # Dot /\ PathDir(p) = dir})

\* os.FileInfo.Size(); the size of a directory is filesystem-specific and is
\* reported as zero here
NodeSize(node) == Len(node.content)

validSortOptions == { <<"n", "a", "m", "e">>, <<"s", "i", "z", "e">>,
                      <<"t", "y", "p", "e">> }

LSValidateInput(input, fsys) ==
    IF HasKey(input, "path") /\ ~IsString(input["path"])
    THEN "path must be a string"
    ELSE IF HasKey(input, "path") /\ input["path"].str # <<>>
            /\ ~Exists(fsys, input["path"].str)
    THEN "path does not exist"
    ELSE IF HasKey(input, "show_hidden") /\ ~IsBool(input["show_hidden"])
    THEN "show_hidden must be a boolean"
    ELSE IF HasKey(input, "sort_by") /\ ~IsString(input["sort_by"])
    THEN "sort_by must be a string"
    ELSE IF HasKey(input, "sort_by") /\ input["sort_by"].str \notin validSortOptions
    THEN "sort_by must be one of: name, size, type"
    ELSE NilError

LSEntry(fsys, path, name, withExt) ==
    [Name |-> name, Path |-> path, IsDir |-> fsys[path].kind = "dir",
     Size |-> NodeSize(fsys[path]),
     Extension |-> IF withExt THEN PathExt(name) ELSE <<>>]

\* the less functions of the three sort orders
EntryLess(sortBy, a, b) ==
    CASE sortBy = <<"n", "a", "m", "e">> -> StrLess(a.Name, b.Name)
      [] sortBy = <<"s", "i", "z", "e">> -> a.Size < b.Size
      [] sortBy = <<"t", "y", "p", "e">> ->
            IF a.IsDir /\ ~b.IsDir THEN TRUE
            ELSE IF ~a.IsDir /\ b.IsDir THEN FALSE
            ELSE StrLess(a.Name, b.Name)

\* sort.Slice(entries, less); elements that compare equal keep their order
RECURSIVE InsertBy(_, _, _)
InsertBy(sorted, e, sortBy) ==
    IF sorted = <<>> THEN <<e>>
    ELSE IF EntryLess(sortBy, e, sorted[1]) THEN <<e>> \o sorted
    ELSE <<sorted[1]>> \o InsertBy(Tail(sorted), e, sortBy)

RECURSIVE SortBy(_, _)
SortBy(s, sortBy) ==
    IF s = <<>> THEN <<>>
    ELSE InsertBy(SortBy(SubSeq(s, 1, Len(s) - 1), sortBy), s[Len(s)], sortBy)

LSToolOutput(entries, error) == [Entries |-> entries, Error |-> error]

\* if !showHidden && file.Name()[0] == '.' { continue }
LSShown(files, showHidden) ==
    SelectSeq(files, LAMBDA p : showHidden \/ PathBase(p)[1] # ".")

LSEntries(fsys, dirPath, shown) ==
    [i \in 1..Len(shown) |->
        LSEntry(fsys, PathJoin(dirPath, PathBase(shown[i])), PathBase(shown[i]),
                fsys[shown[i]].kind # "dir")]

\* switch sortBy { case "name": ... case "size": ... case "type": ... }
LSSorted(entries, sortBy) ==
    IF sortBy \in validSortOptions THEN SortBy(entries, sortBy) ELSE entries

LSExecute(input, fsys) ==
    LET path == AsString(input, "path")
        dirPath == IF path.ok THEN path.v ELSE Dot
        showHidden == BoolOr(input, "show_hidden", FALSE)
        sortByVal == AsString(input, "sort_by")
        sortBy == IF sortByVal.ok THEN sortByVal.v ELSE <<"n", "a", "m", "e">>
    IN
    IF ~Exists(fsys, dirPath)
    THEN Executed(LSToolOutput(<<>>,
                      "Directory does not exist or cannot be accessed"),
                  NilError, fsys)
    ELSE IF fsys[dirPath].kind # "dir"
    THEN Executed(LSToolOutput(<<[Name |-> PathBase(dirPath),
                                  Path |-> dirPath, IsDir |-> FALSE,
                                  Size |-> NodeSize(fsys[dirPath]),
                                  Extension |-> PathExt(dirPath)]>>, ""),
                  NilError, fsys)
    ELSE Executed(LSToolOutput(
                      LSSorted(LSEntries(fsys, dirPath,
                                   LSShown(ReadDir(fsys, dirPath), showHidden)),
                               sortBy),
                      ""),
                  NilError, fsys)

----------------------------------------------------------------------------
(* filepath.Match and filepath.Glob, for patterns made of literal           *)
(* characters, "*" and "?"                                                   *)

\* a []interface{} value
ListV(l) == [list |-> l]
IsList(v) == DOMAIN v = {"list"}

\* hasMeta(path)
HasMeta(path) == \E i \in 1..Len(path) : path[i] \in {"*", "?"}

\* filepath.Match(pattern, name) for a name without separator: a run of
\* stars matches any sequence of characters, "?" any one character
RECURSIVE Match(_, _)
Match(pattern, name) ==
    IF pattern = <<>> THEN name = <<>>
    ELSE IF Head(pattern) = "*"
    THEN Match(Tail(pattern), name)
             \/ (name # <<>> /\ Match(pattern, Tail(name)))
    ELSE /\ name # <<>>
         /\ Head(pattern) = "?" \/ Head(pattern) = Head(name)
         /\ Match(Tail(pattern), Tail(name))

\* glob(dir, pattern, matches): the entries of dir, in the order of their
\* names, whose name matches; nothing when dir is not a directory
GlobDir(fsys, dir, pattern) ==
    IF ~IsDir(fsys, dir) THEN <<>>
    ELSE SelectSeq(ReadDir(fsys, dir),
                   LAMBDA q : Match(pattern, PathBase(q)))

\* the matches below every directory of dirs, in the order of dirs
RECURSIVE GlobDirs(_, _, _)
GlobDirs(fsys, dirs, pattern) ==
    IF dirs = <<>> THEN <<>>
    ELSE GlobDir(fsys, Head(dirs), pattern)
             \o GlobDirs(fsys, Tail(dirs), pattern)

\* filepath.Glob(pattern)
RECURSIVE Glob(_, _)
Glob(fsys, pattern) ==
    IF ~HasMeta(pattern)
    THEN IF Exists(fsys, pattern) THEN <<pattern>> ELSE <<>>
    ELSE GlobDirs(fsys,
                  IF HasMeta(PathDir(pattern))
                  THEN Glob(fsys, PathDir(pattern))
                  ELSE <<PathDir(pattern)>>,
                  PathBase(pattern))

----------------------------------------------------------------------------
(* GlobTool *)

GlobValidateInput(input, fsys) ==
    IF ~HasKey(input, "pattern") THEN "pattern is required"
    ELSE IF ~IsString(input["pattern"]) THEN "pattern must be a string"
    ELSE IF input["pattern"].str = <<>> THEN "pattern cannot be empty"
    ELSE IF HasKey(input, "base_dir") /\ ~IsString(input["base_dir"])
    THEN "base_dir must be a string"
    ELSE IF HasKey(input, "base_dir") /\ input["base_dir"].str # <<>>
            /\ ~Exists(fsys, input["base_dir"].str)
    THEN "base_dir does not exist"
    ELSE NilError

GlobToolOutput(files, error) == [Files |-> files, Error |-> error]

\* the pattern GlobTool.Execute hands to filepath.Glob
GlobPattern(baseDir, pattern) ==
    IF ~Contains(pattern, <<"/">>)
    THEN PathJoin(PathJoin(baseDir, <<"*", "*">>), pattern)
    ELSE IF Head(pattern) # "/" THEN PathJoin(baseDir, pattern)
    ELSE pattern

GlobExecute(input, fsys) ==
    LET pattern == AsString(input, "pattern")
        baseDirVal == AsString(input, "base_dir")
        baseDir == IF baseDirVal.ok /\ baseDirVal.v # <<>>
                   THEN baseDirVal.v ELSE Dot
    IN
    IF ~pattern.ok \/ pattern.v = <<>>
    THEN Executed(Nil, "pattern is required and must be a string", fsys)
    ELSE IF ~Exists(fsys, baseDir)
    THEN Executed(GlobToolOutput(<<>>, "Base directory does not exist"),
                  NilError, fsys)
    ELSE Executed(GlobToolOutput(
                      SelectSeq(Glob(fsys, GlobPattern(baseDir, pattern.v)),
                                LAMBDA m : ~IsDir(fsys, m)),
                      ""),
                  NilError, fsys)

----------------------------------------------------------------------------
(* GrepTool.  Beside the matches, a scan keeps what it touched: the paths  *)
(* it resolved, the files it read and the lines it examined, in order.     *)

GrepValidateInput(input) ==
    IF ~HasKey(input, "pattern") THEN "pattern is required"
    ELSE IF ~IsString(input["pattern"]) THEN "pattern must be a string"
    ELSE IF input["pattern"].str = <<>> THEN "pattern cannot be empty"
    ELSE IF ~HasKey(input, "file_paths") THEN "file_paths is required"
    ELSE IF ~IsString(input["file_paths"])
            /\ (~IsList(input["file_paths"])
                \/ input["file_paths"].list = <<>>)
    THEN "file_paths must be a non-empty string or array of strings"
    ELSE IF IsList(input["file_paths"])
            /\ \E i \in 1..Len(input["file_paths"].list) :
                   ~IsString(input["file_paths"].list[i])
    THEN "all elements in file_paths array must be strings"
    ELSE IF HasKey(input, "max_matches") /\ ~IsFloat64(input["max_matches"])
    THEN "max_matches must be a number"
    ELSE IF HasKey(input, "max_matches") /\ input["max_matches"].float64 <= 0
    THEN "max_matches must be positive"
    ELSE NilError

GrepMatch(file, line, content) ==
    [File |-> file, Line |-> line, Content |-> content]

GrepToolOutput(matches, error) == [Matches |-> matches, Error |-> error]

defaultMaxMatches == 100

\* the filePaths slice built from input["file_paths"]
GrepFilePaths(input) ==
    IF HasKey(input, "file_paths") /\ IsList(input["file_paths"])
    THEN LET strs == SelectSeq(input["file_paths"].list,
                               LAMBDA v : IsString(v) /\ v.str # <<>>)
         IN [i \in 1..Len(strs) |-> strs[i].str]
    ELSE IF AsString(input, "file_paths").ok
            /\ AsString(input, "file_paths").v # <<>>
    THEN <<AsString(input, "file_paths").v>>
    ELSE <<>>

Scan(matches, resolved, read, examined) ==
    [matches |-> matches, resolved |-> resolved, read |-> read,
     examined |-> examined]

NoScan == Scan(<<>>, <<>>, <<>>, <<>>)

\* an Examine that numbers the lines from 0
ExamineFromZero(sc, filePath, i, line, pattern) ==
    Scan(IF Contains(line, pattern)
         THEN Append(sc.matches, GrepMatch(filePath, i - 1, line))
         ELSE sc.matches,
         sc.resolved, sc.read, Append(sc.examined, <<filePath, i>>))

\* the examined line i of filePath goes into the scan
Examine(sc, filePath, i, line, pattern) ==
    Scan(IF Contains(line, pattern)
         THEN Append(sc.matches, GrepMatch(filePath, i, line))
         ELSE sc.matches,
         sc.resolved, sc.read, Append(sc.examined, <<filePath, i>>))

\* a line loop that goes on after the cap was reached
RECURSIVE GrepLinesUncapped(_, _, _, _, _, _)
GrepLinesUncapped(sc, filePath, lines, i, pattern, maxMatches) ==
    IF i > Len(lines) THEN sc
    ELSE GrepLinesUncapped(Examine(sc, filePath, i, lines[i], pattern),
                           filePath, lines, i + 1, pattern, maxMatches)

\* for i, line := range lines, from line i on
RECURSIVE GrepLines(_, _, _, _, _, _)
GrepLines(sc, filePath, lines, i, pattern, maxMatches) ==
    IF i > Len(lines) THEN sc
    ELSE IF Contains(lines[i], pattern) /\ Len(sc.matches) + 1 >= maxMatches
    THEN Examine(sc, filePath, i, lines[i], pattern)
    ELSE GrepLines(Examine(sc, filePath, i, lines[i], pattern),
                   filePath, lines, i + 1, pattern, maxMatches)

\* for _, filePath := range matches, from file j on; GrepFilesNext goes on
\* after file j left the scan sc
RECURSIVE GrepFiles(_, _, _, _, _, _), GrepFilesNext(_, _, _, _, _, _)
GrepFilesNext(sc, fsys, files, j, pattern, maxMatches) ==
    IF Len(sc.matches) >= maxMatches THEN sc
    ELSE GrepFiles(sc, fsys, files, j + 1, pattern, maxMatches)

GrepFiles(sc, fsys, files, j, pattern, maxMatches) ==
    IF j > Len(files) THEN sc
    ELSE IF ~Exists(fsys, files[j]) \/ IsDir(fsys, files[j])
    THEN GrepFiles(sc, fsys, files, j + 1, pattern, maxMatches)
    ELSE GrepFilesNext(
             GrepLines(Scan(sc.matches, sc.resolved,
                            Append(sc.read, files[j]), sc.examined),
                       files[j], Split(fsys[files[j]].content), 1, pattern,
                       maxMatches),
             fsys, files, j, pattern, maxMatches)

\* matches, err := filepath.Glob(path) returned matches: path itself when
\* there is none
GrepResolved(path, matches) == IF matches = <<>> THEN <<path>> ELSE matches

\* for _, path := range filePaths, from path k on; GrepPathsNext goes on
\* after path k left the scan sc
RECURSIVE GrepPaths(_, _, _, _, _, _), GrepPathsNext(_, _, _, _, _, _)
GrepPathsNext(sc, fsys, filePaths, k, pattern, maxMatches) ==
    IF Len(sc.matches) >= maxMatches THEN sc
    ELSE GrepPaths(sc, fsys, filePaths, k + 1, pattern, maxMatches)

GrepPaths(sc, fsys, filePaths, k, pattern, maxMatches) ==
    IF k > Len(filePaths) THEN sc
    ELSE GrepPathsNext(
             GrepFiles(Scan(sc.matches, Append(sc.resolved, filePaths[k]),
                            sc.read, sc.examined),
                       fsys,
                       GrepResolved(filePaths[k], Glob(fsys, filePaths[k])),
                       1, pattern, maxMatches),
             fsys, filePaths, k, pattern, maxMatches)

\* GrepTool.Execute after the loops left the scan sc
GrepScanned(sc, fsys) ==
    [ex |-> Executed(GrepToolOutput(sc.matches, ""), NilError, fsys),
     scan |-> sc]

\* what GrepTool.Execute returns and what its scan touched; maxMatches is
\* int(max_matches) of a float64 with an integer value
GrepExecuteScan(input, fsys) ==
    LET pattern == AsString(input, "pattern")
        maxMatches == IF HasKey(input, "max_matches")
                         /\ IsFloat64(input["max_matches"])
                      THEN input["max_matches"].float64
                      ELSE defaultMaxMatches
    IN
    IF ~pattern.ok \/ pattern.v = <<>>
    THEN [ex |-> Executed(Nil, "pattern is required and must be a string",
                          fsys),
          scan |-> NoScan]
    ELSE IF GrepFilePaths(input) = <<>>
    THEN [ex |-> Executed(Nil,
              "file_paths is required and must be a string or array of strings",
              fsys),
          scan |-> NoScan]
    ELSE GrepScanned(GrepPaths(NoScan, fsys,
                               GrepFilePaths(input), 1, pattern.v, maxMatches),
                     fsys)

GrepExecute(input, fsys) == GrepExecuteScan(input, fsys).ex

----------------------------------------------------------------------------
(* The tool registry and the Tool interface.  A tool is identified by its  *)
(* Name(); the registry's factories build a fresh stateless instance.      *)

\* DefaultToolRegistry: the registered names
DefaultToolRegistry ==
    {"Bash", "FileRead", "FileWrite", "FileEdit", "Glob", "Grep", "LS", "Think"}

\* ToolRegistry.GetTool(name): the tool, or NoTool
NoTool == "<nil>"
GetTool(registry, name) == IF name \in registry THEN name ELSE NoTool

\* ToolRegistry.GetAllTools(): one instance per registered name (Go iterates
\* the map in an unspecified order; the names are distinct, so the order
\* does not affect lookup by name)
GetAllTools ==
    <<"Bash", "FileRead", "FileWrite", "FileEdit", "Glob", "Grep", "LS", "Think">>

\* tool.ValidateInput(input)
ToolValidateInput(tool, input, fsys) ==
    CASE tool = "Bash" -> BashValidateInput(input)
      [] tool = "Think" -> ThinkValidateInput(input)
      [] tool = "FileRead" -> FileReadValidateInput(input)
      [] tool = "FileWrite" -> FileWriteValidateInput(input)
      [] tool = "FileEdit" -> FileEditValidateInput(input, fsys)
      [] tool = "LS" -> LSValidateInput(input, fsys)
      [] tool = "Glob" -> GlobValidateInput(input, fsys)
      [] tool = "Grep" -> GrepValidateInput(input)

\* tool.Execute(ctx, input): the output, the error and the filesystem it
\* leaves; run is what the operating system does with a spawned process
ToolExecute(tool, input, fsys, run) ==
    CASE tool = "Bash" -> BashExecute(input, fsys, run)
      [] tool = "Think" -> ThinkExecute(input, fsys)
      [] tool = "FileRead" -> FileReadExecute(input, fsys)
      [] tool = "FileWrite" -> FileWriteExecute(input, fsys)
      [] tool = "FileEdit" -> FileEditExecute(input, fsys)
      [] tool = "LS" -> LSExecute(input, fsys)
      [] tool = "Glob" -> GlobExecute(input, fsys)
      [] tool = "Grep" -> GrepExecute(input, fsys)

\* tool.RequiresPermission(input)
ToolRequiresPermission(tool, input) == tool # "Think"

----------------------------------------------------------------------------
(* core.Session *)

NoModel == "<nil>"

Message(role, content) ==
    [Role |-> role, Content |-> content, ToolCalls |-> <<>>]

SessionConfig(projectPath, systemPrompt) ==
    [ProjectPath |-> projectPath, SystemPrompt |-> systemPrompt,
     MaxTokens |-> 4096, Temperature |-> "0.7"]

defaultSystemPrompt ==
    <<"You are a helpful AI assistant that can use tools to help with coding tasks.">>

\* NewSession that starts the history empty
NewSessionNoSystem(model, tools, config) ==
    [Messages |-> <<>>, Model |-> model, Tools |-> tools,
     Config |-> IF config = Nil
                THEN SessionConfig(<<>>, defaultSystemPrompt) ELSE config]

NewSession(model, tools, config) ==
    LET cfg == IF config = Nil
               THEN SessionConfig(<<>>, defaultSystemPrompt)
               ELSE config
    IN [Messages |-> <<Message("system", StrV(cfg.SystemPrompt))>>,
        Model |-> model, Tools |-> tools, Config |-> cfg]

AddUserMessage(msgs, content) ==
    Append(msgs, Message("user", StrV(content)))

\* AddAssistantMessage that overwrites the last message
AddAssistantMessageInPlace(msgs, content) ==
    [msgs EXCEPT ![Len(msgs)] = Message("assistant", StrV(content))]

AddAssistantMessage(msgs, content) ==
    Append(msgs, Message("assistant", StrV(content)))

AddToolResult(msgs, toolName, id, result) ==
    Append(msgs, Message("tool", result))

\* a call made by an operation: to the model client or to a tool method
Call(fn, target, args, out) ==
    [fn |-> fn, target |-> target, args |-> args, out |-> out]

Return(val, err) == [val |-> val, err |-> err]

\* Query that asks the client again when it answers with an error
QueryRetried(model, msgs, tools, reply) ==
    IF model = NoModel
    THEN [ret |-> Return(Nil, "no model configured"), calls |-> <<>>]
    ELSE [ret |-> reply,
          calls |-> IF reply.err # NilError
                    THEN <<Call("Query", model,
                                [messages |-> msgs, tools |-> tools], reply),
                           Call("Query", model,
                                [messages |-> msgs, tools |-> tools], reply)>>
                    ELSE <<Call("Query", model,
                                [messages |-> msgs, tools |-> tools], reply)>>]

\* Session.Query; reply is what the model client answers when it is called
Query(model, msgs, tools, reply) ==
    IF model = NoModel
    THEN [ret |-> Return(Nil, "no model configured"), calls |-> <<>>]
    ELSE [ret |-> reply,
          calls |-> <<Call("Query", model,
                           [messages |-> msgs, tools |-> tools], reply)>>]

\* Session.StreamQuery; reply is the channel (or error) the client returns
StreamQuery(model, msgs, tools, reply) ==
    IF model = NoModel
    THEN [ret |-> Return(Nil, "no model configured"), calls |-> <<>>]
    ELSE [ret |-> reply,
          calls |-> <<Call("StreamQuery", model,
                           [messages |-> msgs, tools |-> tools], reply)>>]

\* for _, t := range s.Tools { if t.Name() == name { tool = t; break } }
FindTool(tools, name) ==
    IF \E i \in 1..Len(tools) : tools[i] = name THEN name ELSE NoTool

ToolUseResult(toolCall, output, err) ==
    [ToolName |-> toolCall.ToolName, Input |-> toolCall.Input,
     Output |-> output, Error |-> err]

\* what a Session operation did: what it returned, the history and the
\* filesystem it leaves, and the calls it made
Outcome(r, msgs, fsys, c) ==
    [ret |-> r, Messages |-> msgs, fs |-> fsys, calls |-> c]

\* ExecuteTool that records the ToolUseResult, not the tool's raw output
ExecuteToolRunWrapped(msgs, tool, toolCall, verr, ex) ==
    Outcome(Return(ToolUseResult(toolCall, ex.output, ex.err), NilError),
            AddToolResult(msgs, toolCall.ToolName, toolCall.ID,
                          ToolUseResult(toolCall, ex.output, ex.err)),
            ex.fs,
            <<Call("ValidateInput", tool, toolCall.Input, verr),
              Call("Execute", tool, toolCall.Input,
                   [output |-> ex.output, err |-> ex.err])>>)

\* Session.ExecuteTool from "Execute tool" on: tool.Execute returned ex
ExecuteToolRun(msgs, tool, toolCall, verr, ex) ==
    Outcome(Return(ToolUseResult(toolCall, ex.output, ex.err), NilError),
            AddToolResult(msgs, toolCall.ToolName, toolCall.ID, ex.output),
            ex.fs,
            <<Call("ValidateInput", tool, toolCall.Input, verr),
              Call("Execute", tool, toolCall.Input,
                   [output |-> ex.output, err |-> ex.err])>>)

\* Session.ExecuteTool from "Validate input" on: ValidateInput returned verr
ExecuteToolValidated(msgs, tool, toolCall, fsys, run, verr) ==
    IF verr # NilError
    THEN Outcome(Return(ToolUseResult(toolCall, Nil, verr), NilError),
                 msgs, fsys,
                 <<Call("ValidateInput", tool, toolCall.Input, verr)>>)
    ELSE ExecuteToolRun(msgs, tool, toolCall, verr,
                        ToolExecute(tool, toolCall.Input, fsys, run))

\* ExecuteTool that records the failed lookup in the history
ExecuteToolFoundRecorded(msgs, tool, toolCall, fsys, run) ==
    IF tool = NoTool
    THEN Outcome(Return(Nil, "tool not found: " \o toolCall.ToolName),
                 AddToolResult(msgs, toolCall.ToolName, toolCall.ID, Nil),
                 fsys, <<>>)
    ELSE ExecuteToolValidated(msgs, tool, toolCall, fsys, run,
                              ToolValidateInput(tool, toolCall.Input, fsys))

\* Session.ExecuteTool after the lookup found tool (or NoTool)
ExecuteToolFound(msgs, tool, toolCall, fsys, run) ==
    IF tool = NoTool
    THEN Outcome(Return(Nil, "tool not found: " \o toolCall.ToolName),
                 msgs, fsys, <<>>)
    ELSE ExecuteToolValidated(msgs, tool, toolCall, fsys, run,
                              ToolValidateInput(tool, toolCall.Input, fsys))

\* Session.ExecuteTool
ExecuteTool(msgs, tools, toolCall, fsys, run) ==
    ExecuteToolFound(msgs, FindTool(tools, toolCall.ToolName), toolCall,
                     fsys, run)

----------------------------------------------------------------------------
(* The inputs explored *)

UserInputs == { <<"h", "i">> }
AssistantTexts == { <<"o", "k">> }

fileA == <<"a", ".", "t", "x", "t">>
missingPath == <<"n", "o", "n", "e">>

initialFs == [p \in {Dot, fileA} |->
                 IF p = Dot THEN DirNode ELSE FileNode(<<"x", "\n", "y">>)]

\* what the operating system may do with a spawned bash process
BashRuns ==
    { BashRun("exec: bash: executable file not found", <<>>, <<>>, "nil", 0),
      BashRun("none", <<"o">>, <<>>, "nil", 0),
      BashRun("none", <<>>, <<"e">>, "ExitError", 1) }

\* the tools of the file routes spawn no process
noRun == BashRun("none", <<>>, <<>>, "nil", 0)

\* tool calls a model may request (the ID is set by the position in the
\* response)
ToolCall(toolName, input) == [ToolName |-> toolName, Input |-> input, ID |-> ""]

ModelToolCalls ==
    { ToolCall("Think", [prompt |-> StrV(<<"p">>)]),
      ToolCall("Bash", [command |-> StrV(<<"l", "s">>)]),
      ToolCall("Bash", [command |-> StrV(<<" ">> \o bannedCommands[1])]),
      ToolCall("Search", [q |-> StrV(<<"p">>)]) }

WithIDs(tcs) ==
    [i \in 1..Len(tcs) |-> [tcs[i] EXCEPT !.ID = "call_" \o ToString(i)]]

ToolCallSeqs ==
    UNION { [1..n -> ModelToolCalls] : n \in 0..MaxToolCalls }

Response(content, toolCalls) ==
    [Content |-> content, ToolCalls |-> toolCalls,
     Usage |-> [PromptTokens |-> 10, CompletionTokens |-> 5, TotalTokens |-> 15],
     FinishReason |-> IF toolCalls = <<>> THEN "stop" ELSE "tool_calls"]

\* what the model client may answer to Query
ClientReplies ==
    { Return(Response(c, WithIDs(tcs)), NilError) :
          c \in AssistantTexts, tcs \in ToolCallSeqs }
    \cup { Return(Nil, "OpenAI API error") }

\* the answers a library caller's mock model is set up with
MockReplies ==
    { r \in ClientReplies :
          r.err = NilError =>
              \A i \in 1..Len(r.val.ToolCalls) : r.val.ToolCalls[i].ToolName = "Think" }

\* what the model client may answer to StreamQuery
StreamReplies == { Return([chan |-> "responseCh"], NilError),
                   Return(Nil, "OpenAI API error") }

\* tool lists a caller of the library may pass to NewSession
ToolSets == { GetAllTools, <<"Think">> }

testConfig == SessionConfig(<<>>, <<"Test system prompt">>)

hostSystemPrompt ==
    <<"You are a helpful AI coding assistant. You can help with coding tasks, answer questions, and use tools to interact with the file system.">>

hostConfig == SessionConfig(Dot, hostSystemPrompt)

NoResp == Nil
NoTurn == [base |-> 0, execs |-> <<>>, queries |-> 0, outcome |-> "none",
           sessionId |-> "", message |-> <<>>, requested |-> <<>>]

----------------------------------------------------------------------------
(* The web server's tool handlers.  Each returns the HTTP reply, the       *)
(* filesystem it leaves and the tool methods it called.                    *)

Reply(status, body) == [status |-> status, body |-> body]

\* the handler's reply, the filesystem it leaves and the calls it made
Handled(r, fsys, c) == [ret |-> r, fs |-> fsys, calls |-> c]

\* output, err := tool.Execute(ctx, input) and the reply that follows
ReplyExecuted(tool, input, before, ex, wrapped) ==
    Handled(IF ex.err # NilError THEN Reply(500, [error |-> ex.err])
            ELSE IF wrapped THEN Reply(200, [result |-> ex.output])
            ELSE Reply(200, ex.output),
            ex.fs,
            Append(before, Call("Execute", tool, input,
                                [output |-> ex.output, err |-> ex.err])))

handleExecuteToolValidated(tool, input, fsys, run, verr) ==
    IF verr # NilError
    THEN Handled(Reply(400, [error |-> verr]), fsys,
                 <<Call("ValidateInput", tool, input, verr)>>)
    ELSE ReplyExecuted(tool, input,
                       <<Call("ValidateInput", tool, input, verr)>>,
                       ToolExecute(tool, input, fsys, run), TRUE)

handleExecuteTool(registry, toolName, input, fsys, run) ==
    IF GetTool(registry, toolName) = NoTool
    THEN Handled(Reply(404, [error |-> "Tool not found"]), fsys, <<>>)
    ELSE handleExecuteToolValidated(
             GetTool(registry, toolName), input, fsys, run,
             ToolValidateInput(GetTool(registry, toolName), input, fsys))

\* the shared tail of handleListFiles, handleGetFile and handleUpdateFile:
\* look the tool up and call its Execute
ExecuteDirect(registry, toolName, input, fsys) ==
    IF GetTool(registry, toolName) = NoTool
    THEN Handled(Reply(500, [error |-> toolName \o " tool not found"]),
                 fsys, <<>>)
    ELSE ReplyExecuted(GetTool(registry, toolName), input, <<>>,
                       ToolExecute(GetTool(registry, toolName), input, fsys,
                                   noRun),
                       FALSE)

handleListFiles(registry, query, fsys) ==
    LET path == IF query = <<>> THEN Dot ELSE query IN
    ExecuteDirect(registry, "LS", [path |-> StrV(path)], fsys)

handleGetFile(registry, path, fsys) ==
    IF path = <<>>
    THEN Handled(Reply(400, [error |-> "Path is required"]), fsys, <<>>)
    ELSE ExecuteDirect(registry, "FileRead", [file_path |-> StrV(path)],
                       fsys)

handleUpdateFile(registry, path, content, fsys) ==
    IF path = <<>>
    THEN Handled(Reply(400, [error |-> "Path is required"]), fsys, <<>>)
    ELSE ExecuteDirect(registry, "FileWrite",
                       [file_path |-> StrV(path), content |-> StrV(content)],
                       fsys)

\* requests the web client may send
RequestPaths == { <<>>, fileA, missingPath }
RequestContents == { <<"z">> }
ToolRequests ==
    { [toolName |-> "Think", input |-> [prompt |-> StrV(<<"p">>)]],
      [toolName |-> "Think", input |-> [prompt |-> Float64V(1)]],
      [toolName |-> "Bash", input |-> [command |-> StrV(<<"l", "s">>)]],
      [toolName |-> "LS", input |-> [path |-> StrV(missingPath)]],
      [toolName |-> "Search", input |-> EmptyInput] }

----------------------------------------------------------------------------
(* Steps *)

\* at this level a run of the subprocess is one outcome of BashRuns
NoProc == [pc |-> "none"]

Did(op, arg, r, c) ==
    /\ lastOp' = [op |-> op, arg |-> arg]
    /\ ret' = r
    /\ calls' = c
    /\ proc' = proc

SessionExists == Config # Nil

Init ==
    /\ host \in {"library", "cli", "server"}
    /\ \E model \in {NoModel, "MockModel"}, tools \in ToolSets,
          config \in {Nil, testConfig} :
          LET s == IF host = "library" THEN NewSession(model, tools, config)
                   ELSE IF host = "cli"
                   THEN NewSession("OpenAIModel", GetAllTools, hostConfig)
                   ELSE [Messages |-> <<>>, Model |-> NoModel, Tools |-> <<>>,
                         Config |-> Nil]
          IN /\ Messages = s.Messages
             /\ Model = s.Model
             /\ Tools = s.Tools
             /\ Config = s.Config
    /\ fs = initialFs
    /\ pc = "idle"
    /\ resp = NoResp
    /\ tcIdx = 0
    /\ hostErr = NilError
    /\ turn = NoTurn
    /\ lastOp = [op |-> IF host = "server" THEN "NewServer" ELSE "NewSession",
                 arg |-> Nil]
    /\ ret = Return(Nil, NilError)
    /\ calls = <<>>
    /\ proc = NoProc

\* the step takes the outcome x of Session.ExecuteTool
Effect(x, arg) ==
    /\ Messages' = x.Messages
    /\ fs' = x.fs
    /\ Did("ExecuteTool", arg, x.ret, x.calls)

\* ---- a caller of the library uses the Session directly ----

CallAddUserMessage ==
    /\ host = "library" /\ Len(Messages) < MaxMessages
    /\ \E content \in UserInputs :
          /\ Messages' = AddUserMessage(Messages, content)
          /\ Did("AddUserMessage", [content |-> content],
                 Return(Nil, NilError), <<>>)
    /\ UNCHANGED <<Model, Tools, Config, fs, pc, host, resp, tcIdx, hostErr, turn>>

CallAddAssistantMessage ==
    /\ host = "library" /\ Len(Messages) < MaxMessages
    /\ \E content \in AssistantTexts :
          /\ Messages' = AddAssistantMessage(Messages, content)
          /\ Did("AddAssistantMessage", [content |-> content],
                 Return(Nil, NilError), <<>>)
    /\ UNCHANGED <<Model, Tools, Config, fs, pc, host, resp, tcIdx, hostErr, turn>>

CallAddToolResult ==
    /\ host = "library" /\ Len(Messages) < MaxMessages
    /\ \E result \in {Nil, [Reasoning |-> <<"p">>]} :
          /\ Messages' = AddToolResult(Messages, "Think", "call_1", result)
          /\ Did("AddToolResult", [content |-> result],
                 Return(Nil, NilError), <<>>)
    /\ UNCHANGED <<Model, Tools, Config, fs, pc, host, resp, tcIdx, hostErr, turn>>

CallExecuteTool ==
    /\ host = "library" /\ Len(Messages) < MaxMessages
    /\ \E toolCall \in ModelToolCalls, run \in BashRuns :
          Effect(ExecuteTool(Messages, Tools, toolCall, fs, run),
                 [toolCall |-> toolCall])
    /\ UNCHANGED <<Model, Tools, Config, pc, host, resp, tcIdx, hostErr, turn>>

CallQuery ==
    /\ host = "library"
    /\ \E reply \in MockReplies :
          LET q == Query(Model, Messages, Tools, reply) IN
          Did("Query", Nil, q.ret, q.calls)
    /\ UNCHANGED <<Messages, Model, Tools, Config, fs, pc, host, resp, tcIdx,
                   hostErr, turn>>

CallStreamQuery ==
    /\ host = "library"
    /\ \E reply \in StreamReplies :
          LET q == StreamQuery(Model, Messages, Tools, reply) IN
          Did("StreamQuery", Nil, q.ret, q.calls)
    /\ UNCHANGED <<Messages, Model, Tools, Config, fs, pc, host, resp, tcIdx,
                   hostErr, turn>>

\* ---- the hosts: one turn of the agent loop per user message ----

\* SessionStore
NewSessionStore == [id \in {} |-> Nil]

GetSession(store, id, model, tools) ==
    IF id \in DOMAIN store
    THEN [session |-> store[id], store |-> store]
    ELSE LET session == NewSession(model, tools, hostConfig) IN
         [session |-> session,
          store |-> [k \in DOMAIN store \cup {id} |->
                        IF k = id THEN session ELSE store[k]]]

SessionIDs == {"s1", "s2"}

StartTurn(message, base) ==
    [base |-> base, execs |-> <<>>, queries |-> 0, outcome |-> "running",
     sessionId |-> "", message |-> message, requested |-> <<>>]

\* CLI Update, KeyMsg "enter" with a non-empty input line
CliEnter ==
    /\ host = "cli" /\ pc = "idle"
    /\ Len(Messages) <= MaxTurnStart
    /\ \E input \in UserInputs :
          /\ Messages' = AddUserMessage(Messages, input)
          /\ turn' = StartTurn(input, Len(Messages) + 1)
          /\ Did("AddUserMessage", [content |-> input],
                 Return(Nil, NilError), <<>>)
    /\ pc' = "query1"
    /\ resp' = NoResp
    /\ tcIdx' = 0
    /\ UNCHANGED <<Model, Tools, Config, fs, host, hostErr>>

\* server handleChat up to the session lookup
HandleChat ==
    /\ host = "server" /\ pc = "idle"
    /\ \E id \in SessionIDs, message \in UserInputs, apiKey \in BOOLEAN :
          IF ~apiKey
          THEN /\ hostErr' = "OpenAI API key not found"
               /\ Did("handleChat", [sessionId |-> id, message |-> message],
                      Reply(500, [error |-> "OpenAI API key not found"]), <<>>)
               /\ UNCHANGED <<Messages, Model, Tools, Config, pc, resp, tcIdx,
                              turn>>
          ELSE LET g == GetSession(NewSessionStore, id, "OpenAIModel",
                                   GetAllTools)
               IN /\ Messages' = g.session.Messages
                  /\ Model' = g.session.Model
                  /\ Tools' = g.session.Tools
                  /\ Config' = g.session.Config
                  /\ pc' = "adduser"
                  /\ resp' = NoResp
                  /\ tcIdx' = 0
                  /\ turn' = [StartTurn(message, 0) EXCEPT !.sessionId = id]
                  /\ Did("handleChat", [sessionId |-> id, message |-> message],
                         Return(Nil, NilError), <<>>)
                  /\ UNCHANGED hostErr
    /\ UNCHANGED <<fs, host>>

\* server handleChat: session.AddUserMessage(req.Message)
HostAddUserMessage ==
    /\ pc = "adduser"
    /\ Messages' = AddUserMessage(Messages, turn.message)
    /\ turn' = [turn EXCEPT !.base = Len(Messages) + 1]
    /\ Did("AddUserMessage", [content |-> turn.message],
           Return(Nil, NilError), <<>>)
    /\ pc' = "query1"
    /\ UNCHANGED <<Model, Tools, Config, fs, host, resp, tcIdx, hostErr>>

\* resp, err := session.Query(ctx), first or after the tool loop
HostQuery ==
    /\ pc \in {"query1", "query2"}
    /\ \E reply \in ClientReplies :
          LET q == Query(Model, Messages, Tools, reply) IN
          /\ Did("Query", Nil, q.ret, q.calls)
          /\ resp' = q.ret.val
          /\ IF q.ret.err # NilError
             THEN /\ hostErr' = q.ret.err
                  /\ pc' = "return"
                  /\ tcIdx' = tcIdx
                  /\ turn' = [turn EXCEPT !.outcome = "error"]
             ELSE /\ hostErr' = hostErr
                  /\ turn' = [turn EXCEPT
                                 !.queries = @ + 1,
                                 !.requested = IF pc = "query1"
                                               THEN q.ret.val.ToolCalls ELSE @]
                  /\ IF pc = "query1" /\ Len(q.ret.val.ToolCalls) > 0
                     THEN pc' = "tools" /\ tcIdx' = 1
                     ELSE pc' = "finish" /\ tcIdx' = tcIdx
    /\ UNCHANGED <<Messages, Model, Tools, Config, fs, host>>

\* a loop that takes the tool calls last to first
RangeToolCallsReversed(toolCalls, i) == toolCalls[Len(toolCalls) - i + 1]

\* for _, toolCall := range resp.ToolCalls: the element of this iteration
RangeToolCalls(toolCalls, i) == toolCalls[i]

\* a loop body that logs an error of ExecuteTool and goes on
HostToolStepGoesOn(x, toolCall) ==
    /\ Messages' = x.Messages
    /\ fs' = x.fs
    /\ Did("ExecuteTool", [toolCall |-> toolCall], x.ret, x.calls)
    /\ hostErr' = hostErr
    /\ tcIdx' = tcIdx + 1
    /\ pc' = IF tcIdx = Len(resp.ToolCalls) THEN "query2" ELSE "tools"
    /\ turn' = [turn EXCEPT
                   !.execs = Append(@, [toolCall |-> toolCall,
                                        ret |-> x.ret,
                                        calls |-> x.calls])]

\* the loop body took the outcome x of session.ExecuteTool(ctx, toolCall)
HostToolStep(x, toolCall) ==
    /\ Messages' = x.Messages
    /\ fs' = x.fs
    /\ Did("ExecuteTool", [toolCall |-> toolCall], x.ret, x.calls)
    /\ IF x.ret.err # NilError
       THEN /\ hostErr' = x.ret.err
            /\ pc' = "return"
            /\ tcIdx' = tcIdx
            /\ turn' = [turn EXCEPT
                           !.outcome = "error",
                           !.execs = Append(@, [toolCall |-> toolCall,
                                                ret |-> x.ret,
                                                calls |-> x.calls])]
       ELSE /\ hostErr' = hostErr
            /\ tcIdx' = tcIdx + 1
            /\ pc' = IF tcIdx = Len(resp.ToolCalls) THEN "query2" ELSE "tools"
            /\ turn' = [turn EXCEPT
                           !.execs = Append(@, [toolCall |-> toolCall,
                                                ret |-> x.ret,
                                                calls |-> x.calls])]

\* one iteration of  for _, toolCall := range resp.ToolCalls
HostExecuteTool ==
    /\ pc = "tools"
    /\ \E run \in BashRuns :
          HostToolStep(ExecuteTool(Messages, Tools,
                                   RangeToolCalls(resp.ToolCalls, tcIdx),
                                   fs, run),
                       RangeToolCalls(resp.ToolCalls, tcIdx))
    /\ UNCHANGED <<Model, Tools, Config, host, resp>>

\* session.AddAssistantMessage(resp.Content)
HostFinish ==
    /\ pc = "finish"
    /\ Messages' = AddAssistantMessage(Messages, resp.Content)
    /\ Did("AddAssistantMessage", [content |-> resp.Content],
           Return(Nil, NilError), <<>>)
    /\ pc' = "return"
    /\ turn' = [turn EXCEPT !.outcome = "done"]
    /\ UNCHANGED <<Model, Tools, Config, fs, host, resp, tcIdx, hostErr>>

\* the handler returns and its locals end.  The CLI keeps its session;
\* handleChat took its session from a store it made for this request, so the
\* session ends with the request.  The step records what the request's
\* session held when the handler returned.
HostReturn ==
    /\ pc = "return"
    /\ pc' = "idle"
    /\ resp' = NoResp
    /\ tcIdx' = 0
    /\ turn' = NoTurn
    /\ IF host = "server"
       THEN /\ Messages' = <<>>
            /\ Model' = NoModel
            /\ Tools' = <<>>
            /\ Config' = Nil
            /\ Did("return",
                   [sessionId |-> turn.sessionId, outcome |-> turn.outcome,
                    history |-> Messages],
                   IF turn.outcome = "error"
                   THEN Reply(500, [error |-> hostErr])
                   ELSE Reply(200, [response |-> resp.Content,
                                    toolCalls |-> resp.ToolCalls]),
                   <<>>)
       ELSE /\ Did("return", Nil, Return(Nil, NilError), <<>>)
            /\ UNCHANGED <<Messages, Model, Tools, Config>>
    /\ UNCHANGED <<fs, host, hostErr>>

\* ---- the server's tool and file routes ----

ServerReplies(h, op, arg) ==
    /\ fs' = h.fs
    /\ Did(op, arg, h.ret, h.calls)
    /\ UNCHANGED <<Messages, Model, Tools, Config, pc, host, resp, tcIdx,
                   hostErr, turn>>

HandleExecuteTool ==
    /\ host = "server" /\ pc = "idle"
    /\ \E req \in ToolRequests, run \in BashRuns :
          ServerReplies(handleExecuteTool(DefaultToolRegistry, req.toolName,
                                          req.input, fs, run),
                        "handleExecuteTool", req)

HandleListFiles ==
    /\ host = "server" /\ pc = "idle"
    /\ \E path \in RequestPaths :
          ServerReplies(handleListFiles(DefaultToolRegistry, path, fs),
                        "handleListFiles", [path |-> path])

HandleGetFile ==
    /\ host = "server" /\ pc = "idle"
    /\ \E path \in RequestPaths :
          ServerReplies(handleGetFile(DefaultToolRegistry, path, fs),
                        "handleGetFile", [path |-> path])

HandleUpdateFile ==
    /\ host = "server" /\ pc = "idle"
    /\ \E path \in RequestPaths, content \in RequestContents :
          ServerReplies(handleUpdateFile(DefaultToolRegistry, path, content,
                                         fs),
                        "handleUpdateFile", [path |-> path, content |-> content])

Next ==
    \/ CallAddUserMessage
    \/ CallAddAssistantMessage
    \/ CallAddToolResult
    \/ CallExecuteTool
    \/ CallQuery
    \/ CallStreamQuery
    \/ CliEnter
    \/ HandleChat
    \/ HostAddUserMessage
    \/ HostQuery
    \/ HostExecuteTool
    \/ HostFinish
    \/ HostReturn
    \/ HandleExecuteTool
    \/ HandleListFiles
    \/ HandleGetFile
    \/ HandleUpdateFile

Spec == Init /\ [][Next]_vars

----------------------------------------------------------------------------
(* One run of BashTool.Execute, step by step, with the subprocess, its pipes *)
(* and the context's timer.  proc is a record:                               *)
(*   pc      where Execute is: "start", "readStdout", "readStderr", "wait",  *)
(*           "done"                                                          *)
(*   input   the input map, prog what the command makes bash do              *)
(*   bash    "none", "running", "exited" (not yet reaped) or "killed"        *)
(*   child   a process bash left in the background: "none", "running",       *)
(*           "exited"                                                        *)
(*   written how many writes of prog bash has done                           *)
(*   pipeOut, pipeErr  what the pipes hold; gotOut, gotErr what ReadAll read *)
(*   ctx     "live", or the error of the context once it is done             *)
(*   signalled  the kill of cmd's context watcher reached bash after it had  *)
(*           exited and before Wait reaped it                                *)
(*   result  what Execute returned                                           *)

PipeCap == 2      \* chunks a pipe buffers before a write blocks

\* what a command makes bash do: the chunks it writes, in order, whether it
\* then exits by itself and with which status, and whether it leaves a
\* background process that keeps the pipes ("piped") or not ("detached")
Program(writes, exits, status, child) ==
    [writes |-> writes, exits |-> exits, status |-> status, child |-> child]

Programs ==
    { Program(w, e, st, c) :
          w \in { <<>>, <<"o">>, <<"e", "o">>,
                   [i \in 1..(PipeCap + 1) |-> "e"] },
          e \in BOOLEAN, st \in {0, 1},
          c \in {"none", "piped", "detached"} }

BashInputs ==
    { [command |-> StrV(<<"c">>)],
      [command |-> StrV(<<"c">>), timeout |-> IntV(1)],
      [command |-> StrV(<<"c">>), timeout |-> Float64V(1)],
      EmptyInput }

\* how cmd.Wait reports a context that ended while the process was not yet
\* reaped: Go 1.20 and later return the context's error when the process
\* itself reports success, earlier releases do not
GoReleases == {"go1.18", "go1.20"}

\* status.ExitStatus() of a process ended by a signal
signalledExitStatus == -1

\* a process still holds the write ends of the pipes
WriterOpen(p) ==
    p.bash = "running" \/ (p.child = "running" /\ p.prog.child = "piped")

\* err = cmd.Wait()
WaitError(p) ==
    IF p.bash = "killed" THEN "ExitError"
    ELSE IF p.prog.status # 0 THEN "ExitError"
    ELSE IF p.signalled /\ p.go = "go1.20" THEN p.ctx
    ELSE "nil"

WaitStatus(p) ==
    IF p.bash = "killed" THEN signalledExitStatus ELSE p.prog.status

\* execCtx is done: the watcher of exec.CommandContext kills cmd.Process
Kill(p, err) ==
    [p EXCEPT !.ctx = err,
              !.bash = IF p.bash = "running" THEN "killed" ELSE @,
              !.signalled = (p.bash = "exited"),
              !.runningAtEnd = (p.bash = "running")]

BashInit ==
    /\ \E input \in BashInputs, prog \in Programs, go \in GoReleases :
          proc = [pc |-> "start", input |-> input, prog |-> prog, go |-> go,
                  timeout |-> BashTimeout(input),
                  bash |-> "none", child |-> "none", written |-> 0,
                  pipeOut |-> <<>>, pipeErr |-> <<>>,
                  gotOut |-> <<>>, gotErr |-> <<>>,
                  ctx |-> "live", signalled |-> FALSE, runningAtEnd |-> FALSE,
                  exitedLive |-> FALSE, result |-> Nil]
    /\ Messages = <<>> /\ Model = NoModel /\ Tools = <<>> /\ Config = Nil
    /\ pc = "idle" /\ host = "library" /\ resp = NoResp /\ tcIdx = 0
    /\ hostErr = NilError /\ turn = NoTurn
    /\ fs = initialFs
    /\ lastOp = [op |-> "Execute", arg |-> Nil]
    /\ ret = Return(Nil, NilError)
    /\ calls = <<>>

\* Execute up to cmd.Start(): the input is checked, the pipes are made and
\* the process is started, or one of these fails
BashStart ==
    /\ proc.pc = "start"
    /\ \E fail \in {"none", "exec: bash: executable file not found"} :
          IF BashExecute(proc.input, fs,
                         BashRun(fail, <<>>, <<>>, "nil", 0)).err # NilError
          THEN proc' = [proc EXCEPT
                           !.pc = "done",
                           !.result = BashExecute(proc.input, fs,
                                          BashRun(fail, <<>>, <<>>, "nil", 0))]
          ELSE proc' = [proc EXCEPT
                           !.pc = "readStdout",
                           !.bash = "running",
                           !.child = IF proc.prog.child = "none"
                                     THEN "none" ELSE "running"]
    /\ UNCHANGED <<sessionVars, fs, lastOp, ret, calls>>

\* bash writes its next chunk, unless the pipe is full
BashWrite ==
    /\ proc.pc # "none" /\ proc.bash = "running"
    /\ proc.written < Len(proc.prog.writes)
    /\ IF proc.prog.writes[proc.written + 1] = "o"
       THEN /\ Len(proc.pipeOut) < PipeCap
            /\ proc' = [proc EXCEPT !.pipeOut = Append(@, "o"),
                                    !.written = @ + 1]
       ELSE /\ Len(proc.pipeErr) < PipeCap
            /\ proc' = [proc EXCEPT !.pipeErr = Append(@, "e"),
                                    !.written = @ + 1]
    /\ UNCHANGED <<sessionVars, fs, lastOp, ret, calls>>

\* bash has written everything and exits by itself
BashExit ==
    /\ proc.pc # "none" /\ proc.bash = "running"
    /\ proc.written = Len(proc.prog.writes)
    /\ proc.prog.exits
    /\ proc' = [proc EXCEPT !.bash = "exited",
                            !.exitedLive = (proc.ctx = "live")]
    /\ UNCHANGED <<sessionVars, fs, lastOp, ret, calls>>

\* the background process ends
ChildExit ==
    /\ proc.pc # "none" /\ proc.child = "running"
    /\ proc' = [proc EXCEPT !.child = "exited"]
    /\ UNCHANGED <<sessionVars, fs, lastOp, ret, calls>>

\* stdoutBytes, err := ioutil.ReadAll(stdout): one read
ReadStdout ==
    /\ proc.pc = "readStdout"
    /\ IF proc.pipeOut # <<>>
       THEN proc' = [proc EXCEPT !.gotOut = Append(@, Head(proc.pipeOut)),
                                 !.pipeOut = Tail(@)]
       ELSE /\ ~WriterOpen(proc)
            /\ proc' = [proc EXCEPT !.pc = "readStderr"]
    /\ UNCHANGED <<sessionVars, fs, lastOp, ret, calls>>

\* stderrBytes, err := ioutil.ReadAll(stderr): one read
ReadStderr ==
    /\ proc.pc = "readStderr"
    /\ IF proc.pipeErr # <<>>
       THEN proc' = [proc EXCEPT !.gotErr = Append(@, Head(proc.pipeErr)),
                                 !.pipeErr = Tail(@)]
       ELSE /\ ~WriterOpen(proc)
            /\ proc' = [proc EXCEPT !.pc = "wait"]
    /\ UNCHANGED <<sessionVars, fs, lastOp, ret, calls>>

\* the timeout of execCtx elapses
Timeout ==
    /\ proc.pc \in {"readStdout", "readStderr", "wait"}
    /\ proc.ctx = "live"
    /\ proc' = Kill(proc, "DeadlineExceeded")
    /\ UNCHANGED <<sessionVars, fs, lastOp, ret, calls>>

\* the caller cancels the context it passed to Execute
Cancel ==
    /\ proc.pc \in {"readStdout", "readStderr", "wait"}
    /\ proc.ctx = "live"
    /\ proc' = Kill(proc, "Canceled")
    /\ UNCHANGED <<sessionVars, fs, lastOp, ret, calls>>

\* err = cmd.Wait() returns once bash has ended; Execute builds the result
BashWait ==
    /\ proc.pc = "wait"
    /\ proc.bash \in {"exited", "killed"}
    /\ proc' = [proc EXCEPT
                   !.pc = "done",
                   !.result = BashExecute(proc.input, fs,
                                  BashRun("none", proc.gotOut, proc.gotErr,
                                          WaitError(proc), WaitStatus(proc)))]
    /\ UNCHANGED <<sessionVars, fs, lastOp, ret, calls>>

BashNext ==
    \/ BashStart
    \/ BashWrite
    \/ BashExit
    \/ ChildExit
    \/ ReadStdout
    \/ ReadStderr
    \/ Timeout
    \/ Cancel
    \/ BashWait

SpecBash == BashInit /\ [][BashNext]_vars

----------------------------------------------------------------------------
(* The tools called directly, as the tool tests do: ValidateInput and      *)
(* Execute of one tool on one input, and Session.ExecuteTool on a Bash     *)
(* tool call, over a filesystem the calls change.                          *)

MaxCalls == 2     \* calls made in a row
MaxOffset == 3    \* largest offset read with
MaxLimit == 2     \* largest limit read with

imagePath == <<"b", ".", "p", "n", "g">>
nestedPath == <<"d", "/", "e">>

\* a map with the entries of both (keys of a win)
Merge(a, b) == [k \in DOMAIN a \cup DOMAIN b |->
                   IF k \in DOMAIN a THEN a[k] ELSE b[k]]

\* text around a deny-list entry
Affixes == { <<>>, <<"a", ";">> }

DenyCommands ==
    { pre \o bannedCommands[i] \o suf :
          i \in 1..Len(bannedCommands), pre \in Affixes, suf \in Affixes }

BashToolInputs ==
    { [command |-> StrV(c)] : c \in DenyCommands \cup { <<"l", "s">>, <<>> } }
    \cup { EmptyInput, [command |-> IntV(1)],
           [command |-> StrV(<<"l", "s">>), timeout |-> IntV(0)] }

Payloads == { <<>>, <<"c">>, <<"\n", "d">> }

WriteFlags ==
    { EmptyInput,
      [append |-> BoolV(TRUE)],
      [append |-> BoolV(TRUE), trailing_newline |-> BoolV(TRUE)],
      [append |-> BoolV(TRUE), leading_newline |-> BoolV(FALSE)],
      [trailing_newline |-> BoolV(FALSE)] }

FileWriteInputs ==
    { Merge([file_path |-> StrV(p), content |-> StrV(c)], flags) :
          p \in {fileA, nestedPath}, c \in Payloads, flags \in WriteFlags }
    \cup { [file_path |-> StrV(p), content |-> StrV(<<"c">>)] :
               p \in {imagePath, Dot} }
    \cup { [file_path |-> StrV(fileA)],
           [file_path |-> StrV(fileA), content |-> StrV(<<"c">>),
            append |-> StrV(<<"y">>)] }

FileReadInputs ==
    { [file_path |-> StrV(p)] :
          p \in {fileA, imagePath, nestedPath, missingPath, Dot, <<>>} }
    \cup { [file_path |-> StrV(fileA), offset |-> Float64V(o),
            limit |-> Float64V(l)] : o \in 0..MaxOffset, l \in 1..MaxLimit }
    \cup { [file_path |-> StrV(fileA), offset |-> Float64V(1)],
           [file_path |-> StrV(fileA), offset |-> IntV(1)] }

FileEditInputs ==
    { [file_path |-> StrV(fileA), old_text |-> StrV(old),
       new_text |-> StrV(new)] :
          old \in { <<"x">>, <<"q">>, <<"\n">>, <<>> },
          new \in { <<"z">>, <<"x">>, <<>> } }
    \cup { [file_path |-> StrV(p), old_text |-> StrV(<<"x">>),
            new_text |-> StrV(<<"z">>)] : p \in {missingPath, Dot} }
    \cup { [file_path |-> StrV(fileA), old_text |-> StrV(<<"x">>)] }

LSInputs ==
    { EmptyInput, [path |-> IntV(5)], [path |-> StrV(missingPath)],
      [path |-> StrV(fileA)], [path |-> StrV(Dot)],
      [sort_by |-> StrV(<<"d", "a", "t", "e">>)] }

ThinkInputs ==
    { EmptyInput, [prompt |-> StrV(<<"p">>)], [prompt |-> StrV(<<>>)],
      [prompt |-> IntV(1)] }

\* the tools called directly
DirectTools == {"Bash", "Think", "FileRead", "FileWrite", "FileEdit", "LS"}

ToolInputs(tool) ==
    CASE tool = "Bash" -> BashToolInputs
      [] tool = "Think" -> ThinkInputs
      [] tool = "FileRead" -> FileReadInputs
      [] tool = "FileWrite" -> FileWriteInputs
      [] tool = "FileEdit" -> FileEditInputs
      [] tool = "LS" -> LSInputs

\* in these calls bash starts, and the command prints and exits with 0
printed == BashRun("none", <<"o">>, <<>>, "nil", 0)

\* the n-th call: what was called, on what, and the filesystem it found
DidCall(op, arg, r, c) ==
    /\ lastOp' = [op |-> op, arg |-> arg, before |-> fs, seq |-> lastOp.seq + 1]
    /\ ret' = r
    /\ calls' = c
    /\ proc' = proc

ToolsInit ==
    /\ host = "library"
    /\ LET s == NewSession("MockModel", GetAllTools, testConfig)
       IN /\ Messages = s.Messages
          /\ Model = s.Model
          /\ Tools = s.Tools
          /\ Config = s.Config
    /\ fs = initialFs
    /\ pc = "idle"
    /\ resp = NoResp
    /\ tcIdx = 0
    /\ hostErr = NilError
    /\ turn = NoTurn
    /\ lastOp = [op |-> "NewSession", arg |-> Nil, before |-> initialFs,
                 seq |-> 0]
    /\ ret = Return(Nil, NilError)
    /\ calls = <<>>
    /\ proc = NoProc

\* err := tool.ValidateInput(input)
DirectValidateInput ==
    /\ lastOp.seq < MaxCalls
    /\ \E tool \in DirectTools :
          \E input \in ToolInputs(tool) :
              DidCall("ValidateInput", [tool |-> tool, input |-> input],
                      Return(Nil, ToolValidateInput(tool, input, fs)), <<>>)
    /\ UNCHANGED <<sessionVars, fs>>

\* the step takes what tool.Execute returned
Ran(ex, arg) ==
    /\ fs' = ex.fs
    /\ DidCall("Execute", arg, Return(ex.output, ex.err), <<>>)

\* result, err := tool.Execute(ctx, input)
DirectExecute ==
    /\ lastOp.seq < MaxCalls
    /\ \E tool \in DirectTools :
          \E input \in ToolInputs(tool) :
              Ran(ToolExecute(tool, input, fs, printed),
                  [tool |-> tool, input |-> input])
    /\ UNCHANGED sessionVars

\* the step takes the outcome x of Session.ExecuteTool
Ended(x, arg) ==
    /\ Messages' = x.Messages
    /\ fs' = x.fs
    /\ DidCall("ExecuteTool", arg, x.ret, x.calls)

\* result, err := session.ExecuteTool(ctx, toolCall) for a Bash tool call
SessionExecuteTool ==
    /\ lastOp.seq < MaxCalls
    /\ \E input \in BashToolInputs :
          Ended(ExecuteTool(Messages, Tools, ToolCall("Bash", input), fs,
                            printed),
                [tool |-> "Bash", input |-> input])
    /\ UNCHANGED <<Model, Tools, Config, pc, host, resp, tcIdx, hostErr, turn>>

ToolsNext ==
    \/ DirectValidateInput
    \/ DirectExecute
    \/ SessionExecuteTool

SpecTools == ToolsInit /\ [][ToolsNext]_vars

----------------------------------------------------------------------------
(* GrepTool.Execute and GlobTool.Execute called on a directory tree.  The  *)
(* calls change nothing in it; calls holds what the scan of Grep touched.  *)

MaxCap == 3       \* largest max_matches searched with

txt(name) == <<name, ".", "t", "x", "t">>
dirD == <<"d">>
dirE == <<"d", "/", "e">>
fileC == <<"d", "/", "c", ".", "t", "x", "t">>
fileF == <<"d", "/", "e", "/", "f", ".", "t", "x", "t">>

\* a tree with files at three depths, and a flat one
SearchTrees ==
    { [p \in {Dot, txt("a"), txt("b"), dirD, fileC, dirE, fileF} |->
          CASE p = txt("a") -> FileNode(<<"t", "\n", "u", "\n", "t">>)
            [] p = txt("b") -> FileNode(<<"u">>)
            [] p = fileC -> FileNode(<<"t", "\n", "t", "o">>)
            [] p = fileF -> FileNode(<<"t">>)
            [] OTHER -> DirNode],
      [p \in {Dot, txt("a"), txt("b")} |->
          CASE p = txt("a") -> FileNode(<<"u", "\n", "u", "\n", "t", "o">>)
            [] p = txt("b") -> FileNode(<<"u">>)
            [] OTHER -> DirNode] }

GrepTargets ==
    { StrV(txt("a")), StrV(<<"*", ".", "t", "x", "t">>), StrV(dirD),
      ListV(<<StrV(txt("a")), StrV(fileC)>>),
      ListV(<<StrV(fileC), StrV(txt("a"))>>),
      ListV(<<StrV(<<"d", "/", "*">>), StrV(txt("b")), StrV(txt("a"))>>),
      ListV(<<StrV(missingPath), StrV(txt("a")), StrV(fileF)>>) }

GrepInputs ==
    { Merge([pattern |-> StrV(pat), file_paths |-> target], cap) :
          pat \in { <<"t">>, <<"u">>, <<"t", "o">>, <<"q">> },
          target \in GrepTargets,
          cap \in {EmptyInput}
                     \cup { [max_matches |-> Float64V(k)] : k \in 1..MaxCap } }
    \cup { [pattern |-> StrV(<<"t">>)], [file_paths |-> StrV(txt("a"))] }

GlobInputs ==
    { Merge([pattern |-> StrV(pat)], base) :
          pat \in { <<"*", ".", "t", "x", "t">>, txt("a"), <<"*">>,
                    <<"d", "/", "*", ".", "t", "x", "t">>,
                    <<"c", "*">> },
          base \in { EmptyInput, [base_dir |-> StrV(dirD)],
                     [base_dir |-> StrV(missingPath)] } }
    \cup { EmptyInput }

SearchInit ==
    /\ host = "library"
    /\ LET s == NewSession("MockModel", GetAllTools, testConfig)
       IN /\ Messages = s.Messages
          /\ Model = s.Model
          /\ Tools = s.Tools
          /\ Config = s.Config
    /\ fs \in SearchTrees
    /\ pc = "idle"
    /\ resp = NoResp
    /\ tcIdx = 0
    /\ hostErr = NilError
    /\ turn = NoTurn
    /\ lastOp = [op |-> "NewSession", arg |-> Nil, before |-> fs, seq |-> 0]
    /\ ret = Return(Nil, NilError)
    /\ calls = NoScan
    /\ proc = NoProc

\* the step takes what GrepTool.Execute returned and touched
Grepped(x, arg) ==
    /\ fs' = x.ex.fs
    /\ DidCall("Execute", arg, Return(x.ex.output, x.ex.err), x.scan)

\* result, err := NewGrepTool().Execute(ctx, input)
SearchGrep ==
    /\ lastOp.seq < MaxCalls
    /\ \E input \in GrepInputs :
          Grepped(GrepExecuteScan(input, fs), [tool |-> "Grep", input |-> input])
    /\ UNCHANGED sessionVars

\* the step takes what GlobTool.Execute returned
Globbed(ex, arg) ==
    /\ fs' = ex.fs
    /\ DidCall("Execute", arg, Return(ex.output, ex.err),
               NoScan)

\* result, err := NewGlobTool().Execute(ctx, input)
SearchGlob ==
    /\ lastOp.seq < MaxCalls
    /\ \E input \in GlobInputs :
          Globbed(GlobExecute(input, fs), [tool |-> "Glob", input |-> input])
    /\ UNCHANGED sessionVars

SearchNext ==
    \/ SearchGrep
    \/ SearchGlob

SpecSearch == SearchInit /\ [][SearchNext]_vars

(***************************************************************************)
(* One call of AIModel.StreamQuery, step by step: the producer goroutine,  *)
(* the unbuffered channel it sends on, and the consumer.  proc is a record: *)
(*   pc       where the producer is: "call" (StreamQuery not yet called),   *)
(*            "failed" (StreamQuery returned an error, no goroutine),       *)
(*            "recv" (in stream.Recv), "send" (at responseCh <- pending),   *)
(*            "sleep" (MockModel, between its two sends), "return" (about   *)
(*            to run the deferred calls), "done", "panicked"                *)
(*   model    the implementation called                                     *)
(*   net      what stream.Recv will return, in order                        *)
(*   arrived  the contents received from the network so far                 *)
(*   pending  the chunk the producer is sending                             *)
(*   closed   whether the channel is closed                                 *)
(*   consumer "reading", "stopped" (it reads no more) or "done" (it saw     *)
(*            the channel closed)                                           *)
(*   got      the chunks the consumer received                              *)
(*   ctx      "live" or "canceled"; ended: Recv returned its error          *)
(***************************************************************************)
MaxChunks == 2

ResponseChunk(content, isDone, error) ==
    [Content |-> content, IsDone |-> isDone, Error |-> error]

\* a value stream.Recv returns: a response whose first choice carries the
\* delta, a response without choices, or an error
Delta(content) ==
    [kind |-> "response", choices |-> 1, content |-> content,
     error |-> NilError]
NoChoices ==
    [kind |-> "response", choices |-> 0, content |-> "", error |-> NilError]
RecvError(text) ==
    [kind |-> "error", choices |-> 0, content |-> "", error |-> text]

\* strings.Contains(err.Error(), "EOF"), over the error texts explored
ContainsEOF(text) == text \in {"EOF", "unexpected EOF"}

Responses == {Delta("a"), Delta("b"), NoChoices}

RecvErrors == {"EOF", "unexpected EOF", "connection reset by peer"}

\* the streams explored: up to MaxChunks responses, then the error that
\* ends the stream
Streams ==
    { Append(q, RecvError(e)) :
        q \in UNION { [1..n -> Responses] : n \in 0..MaxChunks },
        e \in RecvErrors }

StreamModels == {"OpenAIModel", "MockModel"}

StreamInit ==
    /\ \E m \in StreamModels :
       \E net \in (IF m = "OpenAIModel" THEN Streams ELSE {<<>>}) :
          proc = [pc |-> "call", model |-> m, net |-> net, arrived |-> <<>>,
                  pending |-> Nil, closed |-> FALSE, consumer |-> "reading",
                  got |-> <<>>, ctx |-> "live", ended |-> FALSE]
    /\ Messages = <<>> /\ Model = NoModel /\ Tools = <<>> /\ Config = Nil
    /\ pc = "idle" /\ host = "library" /\ resp = NoResp /\ tcIdx = 0
    /\ hostErr = NilError /\ turn = NoTurn
    /\ fs = initialFs
    /\ lastOp = [op |-> "StreamQuery", arg |-> Nil]
    /\ ret = Return(Nil, NilError)
    /\ calls = <<>>

\* StreamQuery up to its return: the request is sent and the goroutine is
\* started, or CreateChatCompletionStream fails and no channel is returned.
\* MockModel's goroutine starts at its first send.
StreamQueryCall ==
    /\ proc.pc = "call"
    /\ IF proc.model = "MockModel"
       THEN /\ proc' = [proc EXCEPT
                           !.pc = "send",
                           !.arrived = <<"Mock ">>,
                           !.pending = ResponseChunk("Mock ", FALSE, NilError)]
            /\ ret' = Return([chan |-> "responseCh"], NilError)
       ELSE \E failed \in BOOLEAN :
               IF failed
               THEN /\ proc' = [proc EXCEPT !.pc = "failed"]
                    /\ ret' = Return(Nil, "OpenAI API error")
               ELSE /\ proc' = [proc EXCEPT !.pc = "recv"]
                    /\ ret' = Return([chan |-> "responseCh"], NilError)
    /\ UNCHANGED <<sessionVars, fs, lastOp, calls>>

\* the chunk the loop builds from what Recv returned; indexing Choices[0]
\* of a response without choices panics
Received(p, ev) ==
    IF ev.kind = "error"
    THEN [p EXCEPT !.pc = "send", !.ended = TRUE,
                   !.pending = IF ContainsEOF(ev.error)
                               THEN ResponseChunk("", TRUE, NilError)
                               ELSE ResponseChunk("", TRUE, ev.error)]
    ELSE IF ev.choices = 0
    THEN [p EXCEPT !.pc = "panicked", !.net = Tail(@)]
    ELSE [p EXCEPT !.pc = "send", !.net = Tail(@),
                   !.arrived = Append(@, ev.content),
                   !.pending = ResponseChunk(ev.content, FALSE, NilError)]

\* response, err := stream.Recv(): the next value of the stream, or the
\* context's error once the context is cancelled
StreamRecv ==
    /\ proc.pc = "recv"
    /\ \E ev \in {Head(proc.net)} \cup
                 (IF proc.ctx = "canceled"
                  THEN {RecvError("context canceled")} ELSE {}) :
          proc' = Received(proc, ev)
    /\ UNCHANGED <<sessionVars, fs, lastOp, ret, calls>>

\* MockModel: time.Sleep ends and the second chunk is built
MockSleep ==
    /\ proc.pc = "sleep"
    /\ proc' = [proc EXCEPT !.pc = "send", !.ended = TRUE,
                            !.arrived = Append(@, "response"),
                            !.pending = ResponseChunk("response", TRUE,
                                                      NilError)]
    /\ UNCHANGED <<sessionVars, fs, lastOp, ret, calls>>

\* where the producer goes after a send
AfterSend(p) ==
    IF p.pending.IsDone THEN "return"
    ELSE IF p.model = "MockModel" THEN "sleep" ELSE "recv"

\* responseCh <- pending: the channel has no buffer, the send completes
\* when the consumer receives
StreamSend ==
    /\ proc.pc = "send"
    /\ proc.consumer = "reading"
    /\ proc' = [proc EXCEPT !.got = Append(@, proc.pending),
                            !.pc = AfterSend(proc)]
    /\ UNCHANGED <<sessionVars, fs, lastOp, ret, calls>>

\* return: the deferred stream.Close() and close(responseCh) run
StreamReturn ==
    /\ proc.pc = "return"
    /\ proc' = [proc EXCEPT !.pc = "done", !.closed = TRUE]
    /\ UNCHANGED <<sessionVars, fs, lastOp, ret, calls>>

\* the consumer's receive finds the channel closed
ConsumerClosed ==
    /\ proc.pc # "panicked"
    /\ proc.consumer = "reading"
    /\ proc.closed
    /\ proc' = [proc EXCEPT !.consumer = "done"]
    /\ UNCHANGED <<sessionVars, fs, lastOp, ret, calls>>

\* the consumer stops reading the channel
ConsumerStop ==
    /\ proc.pc \notin {"call", "failed", "panicked"}
    /\ proc.consumer = "reading"
    /\ proc' = [proc EXCEPT !.consumer = "stopped"]
    /\ UNCHANGED <<sessionVars, fs, lastOp, ret, calls>>

\* the caller cancels the context it passed to StreamQuery
StreamCancel ==
    /\ proc.pc \in {"recv", "send", "sleep"}
    /\ proc.ctx = "live"
    /\ proc' = [proc EXCEPT !.ctx = "canceled"]
    /\ UNCHANGED <<sessionVars, fs, lastOp, ret, calls>>

StreamNext ==
    \/ StreamQueryCall
    \/ StreamRecv
    \/ MockSleep
    \/ StreamSend
    \/ StreamReturn
    \/ ConsumerClosed
    \/ ConsumerStop
    \/ StreamCancel

SpecStream == StreamInit /\ [][StreamNext]_vars

\* The Go scheduler runs every goroutine that can take a step, and Recv on
\* the HTTP stream returns; nothing makes the consumer keep reading or the
\* caller cancel.
SpecStreamFair ==
    /\ SpecStream
    /\ WF_vars(StreamQueryCall)
    /\ WF_vars(StreamRecv)
    /\ WF_vars(MockSleep)
    /\ WF_vars(StreamSend)
    /\ WF_vars(StreamReturn)
    /\ WF_vars(ConsumerClosed)

----------------------------------------------------------------------------
(***************************************************************************)
(* config.FileConfig: the global and the project configuration, kept as    *)
(* JSON files.  A file written by Save holds the members of the JSON       *)
(* object, in the order of the file; a JSON value is a record of its kind  *)
(* and its content, a JSON string holding the escaped text.  Strings are   *)
(* valid UTF-8 text.                                                       *)
(***************************************************************************)
MaxConfigCalls == 3

MapV(m) == [map |-> m]

GlobalConfig(defaultModel, apiKeys, baseURL, onboarded, version) ==
    [DefaultModel |-> defaultModel, APIKeys |-> apiKeys, BaseURL |-> baseURL,
     HasCompletedOnboarding |-> onboarded, LastOnboardingVersion |-> version]

ProjectConfig(approvedTools) == [ApprovedTools |-> approvedTools]

JSONNull == [json |-> "null", v |-> Nil]
JSONBool(b) == [json |-> "bool", v |-> b]
JSONText(escaped) == [json |-> "string", v |-> escaped]
JSONArray(elems) == [json |-> "array", v |-> elems]
JSONObject(members) == [json |-> "object", v |-> members]
Member(name, value) == [name |-> name, value |-> value]

\* the encoder's escapes: quote and backslash get a backslash, "<" is
\* written <
RECURSIVE Escape(_)
Escape(str) ==
    IF str = <<>> THEN <<>>
    ELSE (CASE Head(str) = "\"" -> <<"\\", "\"">>
            [] Head(str) = "\\" -> <<"\\", "\\">>
            [] Head(str) = "<" -> <<"\\", "u", "0", "0", "3", "c">>
            [] OTHER -> <<Head(str)>>) \o Escape(Tail(str))

\* the decoder's reading of a string literal
RECURSIVE Unescape(_)
Unescape(text) ==
    IF text = <<>> THEN <<>>
    ELSE IF Head(text) # "\\" THEN <<Head(text)>> \o Unescape(Tail(text))
    ELSE IF text[2] = "u"
    THEN (IF SubSeq(text, 3, 6) = <<"0", "0", "3", "c">>
          THEN <<"<">> ELSE <<"?">>) \o Unescape(SubSeq(text, 7, Len(text)))
    ELSE <<text[2]>> \o Unescape(SubSeq(text, 3, Len(text)))

\* the keys of a map in the encoder's order
RECURSIVE SortedKeys(_)
SortedKeys(S) ==
    IF S = {} THEN <<>>
    ELSE LET m == CHOOSE k \in S : \A q \in S \ {k} : StrLess(k, q)
         IN <<m>> \o SortedKeys(S \ {m})

\* json.Marshal of a string, a map[string]string, a []string
MarshalString(str) == JSONText(Escape(str))

MarshalMap(m) ==
    IF m = Nil THEN JSONNull
    ELSE LET keys == SortedKeys(DOMAIN m.map) IN
         JSONObject([i \in 1..Len(keys) |->
                        Member(Escape(keys[i]), MarshalString(m.map[keys[i]]))])

MarshalSlice(l) ==
    IF l = Nil THEN JSONNull
    ELSE JSONArray([i \in 1..Len(l.list) |-> MarshalString(l.list[i])])

\* json.MarshalIndent(config, "", "  ")
MarshalGlobalConfig(c) ==
    << Member("defaultModel", MarshalString(c.DefaultModel)),
       Member("apiKeys", MarshalMap(c.APIKeys)),
       Member("baseURL", MarshalString(c.BaseURL)),
       Member("hasCompletedOnboarding", JSONBool(c.HasCompletedOnboarding)),
       Member("lastOnboardingVersion",
              MarshalString(c.LastOnboardingVersion)) >>

MarshalProjectConfig(c) ==
    << Member("approvedTools", MarshalSlice(c.ApprovedTools)) >>

\* the value of the member a struct field is tagged with; a field whose
\* member is missing or null keeps its zero value
Lookup(doc, name) ==
    IF \E i \in 1..Len(doc) : doc[i].name = name
    THEN doc[CHOOSE i \in 1..Len(doc) : doc[i].name = name].value
    ELSE JSONNull

\* json.Unmarshal into a string, a bool, a map[string]string, a []string
UnmarshalString(j) == IF j.json = "string" THEN Unescape(j.v) ELSE <<>>

UnmarshalBool(j) == IF j.json = "bool" THEN j.v ELSE FALSE

UnmarshalMap(j) ==
    IF j.json # "object" THEN Nil
    ELSE MapV([k \in { Unescape(j.v[i].name) : i \in 1..Len(j.v) } |->
                 UnmarshalString(
                     j.v[CHOOSE i \in 1..Len(j.v) :
                             Unescape(j.v[i].name) = k].value)])

UnmarshalSlice(j) ==
    IF j.json # "array" THEN Nil
    ELSE ListV([i \in 1..Len(j.v) |-> UnmarshalString(j.v[i])])

UnmarshalGlobalConfig(doc) ==
    GlobalConfig(UnmarshalString(Lookup(doc, "defaultModel")),
                 UnmarshalMap(Lookup(doc, "apiKeys")),
                 UnmarshalString(Lookup(doc, "baseURL")),
                 UnmarshalBool(Lookup(doc, "hasCompletedOnboarding")),
                 UnmarshalString(Lookup(doc, "lastOnboardingVersion")))

UnmarshalProjectConfig(doc) ==
    ProjectConfig(UnmarshalSlice(Lookup(doc, "approvedTools")))

globalConfigFile == <<"config.json">>
projectConfigFile == <<".aigo-kode.json">>

defaultGlobalConfig ==
    GlobalConfig(<<"gpt-3.5-turbo">>, MapV(<<>>), <<>>, FALSE, <<>>)
defaultProjectConfig == ProjectConfig(ListV(<<>>))

\* os.ReadFile of a path os.Stat found, then json.Unmarshal
ReadConfig(fsys, configPath, unmarshalled) ==
    IF IsDir(fsys, configPath)
    THEN Return(Nil, "read: is a directory")
    ELSE Return(unmarshalled, NilError)

GetGlobalConfig(fsys, configDir) ==
    LET configPath == PathJoin(configDir, globalConfigFile) IN
    IF ~Exists(fsys, configPath)
    THEN Return(defaultGlobalConfig, NilError)
    ELSE ReadConfig(fsys, configPath,
                    UnmarshalGlobalConfig(fsys[configPath].content))

GetProjectConfig(fsys, projectPath) ==
    LET configPath == PathJoin(projectPath, projectConfigFile) IN
    IF projectPath = <<>>
    THEN Return(Nil, "project path cannot be empty")
    ELSE IF ~Exists(fsys, configPath)
    THEN Return(defaultProjectConfig, NilError)
    ELSE ReadConfig(fsys, configPath,
                    UnmarshalProjectConfig(fsys[configPath].content))

\* what a Save returns and the filesystem it leaves
Saved(written) ==
    [err |-> IF written.ok THEN NilError ELSE "open: no such file or directory",
     fs |-> written.fs]

SaveGlobalConfig(fsys, configDir, config) ==
    IF config = Nil
    THEN [err |-> "config cannot be nil", fs |-> fsys]
    ELSE Saved(WriteFile(fsys, PathJoin(configDir, globalConfigFile),
                         MarshalGlobalConfig(config), FALSE))

\* a Save that writes the file name TestFileConfig looks for
SaveProjectConfigOtherName(fsys, projectPath, config) ==
    IF projectPath = <<>>
    THEN [err |-> "project path cannot be empty", fs |-> fsys]
    ELSE IF config = Nil
    THEN [err |-> "config cannot be nil", fs |-> fsys]
    ELSE Saved(WriteFile(fsys, PathJoin(projectPath, <<".go-anon-kode.json">>),
                         MarshalProjectConfig(config), FALSE))

SaveProjectConfig(fsys, projectPath, config) ==
    IF projectPath = <<>>
    THEN [err |-> "project path cannot be empty", fs |-> fsys]
    ELSE IF config = Nil
    THEN [err |-> "config cannot be nil", fs |-> fsys]
    ELSE Saved(WriteFile(fsys, PathJoin(projectPath, projectConfigFile),
                         MarshalProjectConfig(config), FALSE))

\* ---- a caller uses one FileConfig ----
configDir == <<"c", "f", "g">>
projectDir == <<"p", "r", "j">>

\* an API key with the characters the encoder escapes
quotedKey == <<"k", "\"", "<", "\\">>

GlobalConfigs ==
    { GlobalConfig(m, keys, <<>>, onboarded, <<"1.0.0">>) :
        m \in { <<"gpt-4">>, <<>> },
        keys \in { Nil, MapV(<<>>),
                   MapV([k \in { <<"o">>, <<"a">> } |->
                            IF k = <<"o">> THEN quotedKey ELSE <<"s">>]) },
        onboarded \in BOOLEAN }

ProjectConfigs ==
    { ProjectConfig(tools) :
        tools \in { Nil, ListV(<<>>),
                    ListV(<< <<"BashTool">>, <<"FileReadTool">> >>) } }

ProjectPaths == { projectDir, missingPath, <<>> }

\* calls keeps the configuration of the last Save that succeeded, for the
\* global file and for each project path
ConfigInit ==
    /\ fs = [p \in {Dot, configDir, projectDir} |-> DirNode]
    /\ calls = [global |-> Nil, project |-> [d \in ProjectPaths |-> Nil]]
    /\ lastOp = [op |-> "NewFileConfig", arg |-> [configDir |-> configDir],
                 before |-> fs, seq |-> 0]
    /\ ret = Return(Nil, NilError)
    /\ Messages = <<>> /\ Model = NoModel /\ Tools = <<>> /\ Config = Nil
    /\ pc = "idle" /\ host = "library" /\ resp = NoResp /\ tcIdx = 0
    /\ hostErr = NilError /\ turn = NoTurn
    /\ proc = NoProc

CallGetGlobalConfig ==
    /\ lastOp.seq < MaxConfigCalls
    /\ DidCall("GetGlobalConfig", Nil, GetGlobalConfig(fs, configDir), calls)
    /\ UNCHANGED <<sessionVars, fs>>

CallGetProjectConfig ==
    /\ lastOp.seq < MaxConfigCalls
    /\ \E d \in ProjectPaths :
          DidCall("GetProjectConfig", [projectPath |-> d],
                  GetProjectConfig(fs, d), calls)
    /\ UNCHANGED <<sessionVars, fs>>

SavedGlobal(saved, config) ==
    /\ fs' = saved.fs
    /\ DidCall("SaveGlobalConfig", [config |-> config],
               Return(Nil, saved.err),
               IF saved.err = NilError
               THEN [calls EXCEPT !.global = config] ELSE calls)

CallSaveGlobalConfig ==
    /\ lastOp.seq < MaxConfigCalls
    /\ \E c \in GlobalConfigs \cup {Nil} :
          SavedGlobal(SaveGlobalConfig(fs, configDir, c), c)
    /\ UNCHANGED sessionVars

SavedProject(saved, d, config) ==
    /\ fs' = saved.fs
    /\ DidCall("SaveProjectConfig", [projectPath |-> d, config |-> config],
               Return(Nil, saved.err),
               IF saved.err = NilError
               THEN [calls EXCEPT !.project[d] = config] ELSE calls)

CallSaveProjectConfig ==
    /\ lastOp.seq < MaxConfigCalls
    /\ \E d \in ProjectPaths, c \in ProjectConfigs \cup {Nil} :
          SavedProject(SaveProjectConfig(fs, d, c), d, c)
    /\ UNCHANGED sessionVars

ConfigNext ==
    \/ CallGetGlobalConfig
    \/ CallGetProjectConfig
    \/ CallSaveGlobalConfig
    \/ CallSaveProjectConfig

SpecConfig == ConfigInit /\ [][ConfigNext]_vars

----------------------------------------------------------------------------
(* Properties of the Session and of the hosts' agent loop *)

\* the step is a call of Session.ExecuteTool
ExecuteToolStep == lastOp'.op = "ExecuteTool"
\* the tool the session finds for the call of this step, or NoTool
StepTool == FindTool(Tools, lastOp'.arg.toolCall.ToolName)
StepInput == lastOp'.arg.toolCall.Input
\* the calls of tool.Execute made in this step
StepExecutes == { i \in 1..Len(calls') : calls'[i].fn = "Execute" }
\* the step appends exactly the message m and touches nothing before it
Appends(m) == Messages' = Append(Messages, m)
AppendsOne ==
    /\ Len(Messages') = Len(Messages) + 1
    /\ SubSeq(Messages', 1, Len(Messages)) = Messages
HasRole(role) == \E i \in 1..Len(Messages) : Messages[i].Role = role

\* C1: whenever a session exists, its history is non-empty, its first
\* message has role "system" and no later message has role "system",
\* whatever the config (nil included) and whatever operations were called.
C1_HistoryStartsWithOneSystemMessage ==
    SessionExists =>
        /\ Len(Messages) > 0
        /\ Messages[1].Role = "system"
        /\ \A i \in 2..Len(Messages) : Messages[i].Role # "system"

\* a session made with a nil config, after user, assistant and tool
\* messages were added and a tool was executed
C1_Witness ==
    /\ host = "library"
    /\ Config.SystemPrompt = defaultSystemPrompt
    /\ Len(Messages) >= 4
    /\ HasRole("user") /\ HasRole("assistant") /\ HasRole("tool")
    /\ lastOp.op = "ExecuteTool"

\* C2: ExecuteTool with a tool name that matches no tool of the session
\* returns a nil result and the "tool not found" error, calls neither
\* ValidateInput nor Execute, and leaves the history as it was.
C2_UnknownToolIsRefused ==
    [][ (ExecuteToolStep /\ StepTool = NoTool) =>
            /\ ret' = Return(Nil, "tool not found: "
                                  \o lastOp'.arg.toolCall.ToolName)
            /\ calls' = <<>>
            /\ Messages' = Messages ]_vars

\* ExecuteTool was called for the unknown tool Search on a history that
\* already holds more than the system message
C2_Witness ==
    /\ lastOp.op = "ExecuteTool"
    /\ lastOp.arg.toolCall.ToolName = "Search"
    /\ FindTool(Tools, "Search") = NoTool
    /\ ret.err = "tool not found: Search"
    /\ Len(Messages) > 1

\* C3: when ExecuteTool finds the tool and ValidateInput rejects the input,
\* it returns a ToolUseResult carrying the validation error and a nil
\* error, does not call Execute, and appends exactly one tool-role message.
C3_RejectedInputIsRecorded ==
    [][ (/\ ExecuteToolStep
         /\ StepTool # NoTool
         /\ ToolValidateInput(StepTool, StepInput, fs) # NilError) =>
            /\ ret'.err = NilError
            /\ ret'.val.Error = ToolValidateInput(StepTool, StepInput, fs)
            /\ StepExecutes = {}
            /\ AppendsOne
            /\ Messages'[Len(Messages')].Role = "tool" ]_vars

\* C4: when ExecuteTool finds the tool and validation passes, Execute is
\* called exactly once, on that tool and input, and exactly one message is
\* appended: a tool-role message whose content is the output Execute
\* returned, whether or not Execute also returned an error.
C4_ValidInputIsExecutedOnce ==
    [][ (/\ ExecuteToolStep
         /\ StepTool # NoTool
         /\ ToolValidateInput(StepTool, StepInput, fs) = NilError) =>
            /\ Cardinality(StepExecutes) = 1
            /\ \A i \in StepExecutes :
                  /\ calls'[i].target = StepTool
                  /\ calls'[i].args = StepInput
                  /\ Appends(Message("tool", calls'[i].out.output)) ]_vars

\* ExecuteTool ran Bash on a valid command, and the output of the run is
\* the content of the last message
C4_Witness ==
    /\ lastOp.op = "ExecuteTool"
    /\ Len(calls) = 2
    /\ calls[2].fn = "Execute"
    /\ calls[2].target = "Bash"
    /\ calls[2].out.err = NilError
    /\ calls[2].out.output # Nil
    /\ Messages[Len(Messages)] = Message("tool", calls[2].out.output)

\* C5: when Execute returns an error during ExecuteTool, ExecuteTool
\* returns a nil error and the tool-role message it appends carries the
\* failure: its content is not empty.
C5_ExecuteErrorIsInHistory ==
    [][ (/\ ExecuteToolStep
         /\ \E i \in StepExecutes : calls'[i].out.err # NilError) =>
            /\ ret'.err = NilError
            /\ AppendsOne
            /\ Messages'[Len(Messages')].Role = "tool"
            /\ Messages'[Len(Messages')].Content # Nil ]_vars

\* C6: a turn of the host ends with the assistant message appended only
\* for a response that carries no tool calls, so that no requested tool
\* call is left unexecuted.
C6_TurnEndsWithoutToolCalls ==
    (pc = "return" /\ turn.outcome = "done") => resp.ToolCalls = <<>>

\* the tool calls the host has passed to ExecuteTool in this turn
InvokedToolCalls == [i \in 1..Len(turn.execs) |-> turn.execs[i].toolCall]
\* an invocation of ExecuteTool that reached tool.Execute
ReachedExecute(e) == \E i \in 1..Len(e.calls) : e.calls[i].fn = "Execute"
IsToolMessage(m) == m.Role = "tool"
\* the tool-role messages appended since the turn's user message
TurnToolMessages ==
    SelectSeq(SubSeq(Messages, turn.base + 1, Len(Messages)), IsToolMessage)
\* the outputs of the invocations that reached Execute, in invocation order
TurnOutputs ==
    LET reached == SelectSeq(turn.execs, ReachedExecute) IN
    [i \in 1..Len(reached) |->
        Message("tool", reached[i].calls[Len(reached[i].calls)].out.output)]
\* the host's loop over the response's tool calls is over
LoopOver == pc \in {"query2", "finish", "return"}

\* C7 as stated: once the loop over a response with several tool calls is
\* over, ExecuteTool has been invoked once per call, in the order of the
\* response, and the turn's tool messages are in that order.
C7_EveryToolCallIsInvoked ==
    (LoopOver /\ Len(turn.requested) >= 2) =>
        /\ InvokedToolCalls = turn.requested
        /\ TurnToolMessages = TurnOutputs

\* C7, amended: the host invokes ExecuteTool on the tool calls of the
\* response in their order, each at most once and one at a time, up to and
\* including the first invocation that returns an error; it invokes all of
\* them when none returns an error; and the tool messages of the turn are
\* the outputs of the invocations that reached Execute, in that order.
C7_ToolCallsRunInOrder ==
    turn.outcome # "none" =>
        /\ Len(turn.execs) <= Len(turn.requested)
        /\ \A i \in 1..Len(turn.execs) :
              /\ turn.execs[i].toolCall = turn.requested[i]
              /\ i < Len(turn.execs) => turn.execs[i].ret.err = NilError
        /\ pc = "tools" =>
              /\ tcIdx = Len(turn.execs) + 1
              /\ \A i \in 1..Len(turn.execs) : turn.execs[i].ret.err = NilError
        /\ (LoopOver /\ Len(turn.execs) < Len(turn.requested)) =>
              /\ Len(turn.execs) > 0
              /\ turn.execs[Len(turn.execs)].ret.err # NilError
        /\ TurnToolMessages = TurnOutputs

\* the loop ran over a response with two different tool calls, both of
\* which reached Execute and left their outputs in the history
C7_Witness ==
    /\ pc = "query2"
    /\ Len(turn.requested) = 2
    /\ turn.requested[1].ToolName # turn.requested[2].ToolName
    /\ InvokedToolCalls = turn.requested
    /\ Len(TurnToolMessages) = 2
    /\ TurnToolMessages[1] # TurnToolMessages[2]

\* C8: whenever a tool's Execute is called, by ExecuteTool or by a server
\* handler, ValidateInput was called just before on the same tool and input
\* and returned nil, and ValidateInput does accept that input.
C8_ExecuteOnlyAfterValidation ==
    [][ \A i \in StepExecutes :
            /\ i > 1
            /\ calls'[i - 1] = Call("ValidateInput", calls'[i].target,
                                    calls'[i].args, NilError)
            /\ ToolValidateInput(calls'[i].target, calls'[i].args, fs)
                   = NilError ]_vars

\* C9: AddUserMessage, AddAssistantMessage and AddToolResult each append
\* exactly one message, of role user, assistant and tool, with the given
\* content; ExecuteTool appends at most one message; and none of them
\* changes, reorders or removes a message already in the history.
C9_HistoryIsAppendOnly ==
    [][ /\ lastOp'.op = "AddUserMessage" =>
              Appends([Role |-> "user", Content |-> StrV(lastOp'.arg.content),
                       ToolCalls |-> <<>>])
        /\ lastOp'.op = "AddAssistantMessage" =>
              Appends([Role |-> "assistant",
                       Content |-> StrV(lastOp'.arg.content),
                       ToolCalls |-> <<>>])
        /\ lastOp'.op = "AddToolResult" =>
              Appends([Role |-> "tool", Content |-> lastOp'.arg.content,
                       ToolCalls |-> <<>>])
        /\ ExecuteToolStep => (Messages' = Messages \/ AppendsOne) ]_vars

\* an assistant message was appended to a history that held a user message
C9_Witness ==
    /\ lastOp.op = "AddAssistantMessage"
    /\ Len(Messages) >= 3
    /\ Messages[Len(Messages) - 1].Role = "user"
    /\ Messages[Len(Messages)] =
           Message("assistant", StrV(lastOp.arg.content))

\* C10: Query calls the model client exactly once, with the whole history
\* and the session's tools, returns what the client returned, response or
\* error, and leaves the history unchanged; with no model configured it
\* returns an error and calls nothing.
C10_QueryForwardsOnce ==
    [][ lastOp'.op = "Query" =>
            /\ Messages' = Messages
            /\ IF Model = NoModel
               THEN /\ calls' = <<>>
                    /\ ret'.val = Nil
                    /\ ret'.err # NilError
               ELSE /\ Len(calls') = 1
                    /\ calls'[1].fn = "Query"
                    /\ calls'[1].target = Model
                    /\ calls'[1].args = [messages |-> Messages,
                                         tools |-> Tools]
                    /\ ret' = calls'[1].out ]_vars

\* Query was answered with an error by the client after a tool ran
C10_Witness ==
    /\ lastOp.op = "Query"
    /\ Len(calls) = 1
    /\ calls[1].args.messages = Messages
    /\ ret.err = "OpenAI API error"
    /\ HasRole("tool")

----------------------------------------------------------------------------
(* Properties of one run of BashTool.Execute *)

EndsWith(str, suffix) ==
    /\ Len(str) >= Len(suffix)
    /\ SubSeq(str, Len(str) - Len(suffix) + 1, Len(str)) = suffix

\* what bash wrote to stdout ("o") or stderr ("e") before it ended
WrittenTo(stream) ==
    SelectSeq(SubSeq(proc.prog.writes, 1, proc.written),
              LAMBDA c : c = stream)

\* C11: when the timeout elapses while the subprocess is still running,
\* Execute returns no error and a result with Interrupted = true, Stderr
\* ending with the timeout notice and ExitCode = 0.
C11_TimeoutIsReportedAsInterrupted ==
    (proc.pc = "done" /\ proc.ctx = "DeadlineExceeded" /\ proc.runningAtEnd) =>
        /\ proc.result.err = NilError
        /\ proc.result.output.Interrupted
        /\ EndsWith(proc.result.output.Stderr, timedOutNotice)
        /\ proc.result.output.ExitCode = 0

\* C12: when the timeout elapses or the caller cancels while the subprocess
\* is running, the subprocess is killed, and when Execute returns no process
\* that the call gave rise to is still running.
C12_NoProcessOutlivesExecute ==
    (proc.pc = "done" /\ proc.runningAtEnd) =>
        /\ proc.bash = "killed"
        /\ proc.child # "running"

\* C13: when the subprocess exits by itself before the timeout, with status
\* zero or not, Execute returns a nil error and a result whose Stdout and
\* Stderr are what the process wrote to each stream, whose ExitCode is the
\* exit status and whose Interrupted is false.
C13_OwnExitIsReportedAsCompleted ==
    (proc.pc = "done" /\ proc.bash = "exited" /\ proc.exitedLive) =>
        /\ proc.result.err = NilError
        /\ proc.result.output.Stdout = WrittenTo("o")
        /\ proc.result.output.Stderr = WrittenTo("e")
        /\ proc.result.output.ExitCode = proc.prog.status
        /\ ~proc.result.output.Interrupted

\* the subprocess or Execute can take a step without the context ending
RunCanProceed ==
    ENABLED (BashWrite \/ BashExit \/ ChildExit \/ ReadStdout \/ ReadStderr
                \/ BashWait)

\* C28: a command that exits by itself reaches the completed result with
\* everything it wrote to stdout and stderr, whatever the amounts and the
\* interleaving, also with more stderr than the pipe holds written while
\* stdout is open: while the context is live the run is never stuck with
\* the process blocked on one stream and Execute reading the other, and a
\* run that ends with the context live returns all that the command writes.
C28_StreamsNeverStall ==
    (proc.prog.exits /\ proc.ctx = "live") =>
        /\ proc.pc \in {"readStdout", "readStderr", "wait"} => RunCanProceed
        /\ (proc.pc = "done" /\ proc.result.err = NilError) =>
              /\ proc.result.output.Stdout =
                    SelectSeq(proc.prog.writes, LAMBDA c : c = "o")
              /\ proc.result.output.Stderr =
                    SelectSeq(proc.prog.writes, LAMBDA c : c = "e")

----------------------------------------------------------------------------
(* Properties of the tools called directly *)

\* the step is the call op of tool
Calls(op, tool) ==
    /\ lastOp'.seq = lastOp.seq + 1
    /\ lastOp'.op = op
    /\ lastOp'.arg.tool = tool

\* the state follows the call op of tool
Called(op, tool) ==
    /\ lastOp.seq > 0
    /\ lastOp.op = op
    /\ lastOp.arg.tool = tool

\* input carries a command with a deny-list entry somewhere in it
IsDenied(input) ==
    /\ HasKey(input, "command") /\ IsString(input["command"])
    /\ \E i \in 1..Len(bannedCommands) :
          \E k \in 0..(Len(input["command"].str) - Len(bannedCommands[i])) :
              SubSeq(input["command"].str, k + 1, k + Len(bannedCommands[i]))
                  = bannedCommands[i]

StartsSubprocess(c) == \E i \in 1..Len(c) : c[i].fn = "Execute"

\* C14: BashTool.ValidateInput returns an error for every command that has
\* a deny-list entry as a substring, whatever the entry and whatever text
\* stands before or after it, and Session.ExecuteTool makes no call of
\* BashTool.Execute for such a command (no subprocess is started, the
\* filesystem is untouched, the result carries the validation error).
C14_DenyListedCommandIsRefused ==
    [][ /\ (Calls("ValidateInput", "Bash") /\ IsDenied(lastOp'.arg.input))
            => ret'.err # NilError
        /\ (Calls("ExecuteTool", "Bash") /\ IsDenied(lastOp'.arg.input))
            => /\ ~StartsSubprocess(calls')
               /\ fs' = fs
               /\ ret'.val.Error # NilError
               /\ ret'.val.Output = Nil ]_vars

\* Session.ExecuteTool refused a command with text before and after the
\* last deny-list entry
C14_Witness ==
    /\ Called("ExecuteTool", "Bash")
    /\ IsDenied(lastOp.arg.input)
    /\ lastOp.arg.input["command"].str
           = <<"a", ";">> \o bannedCommands[Len(bannedCommands)] \o <<"a", ";">>
    /\ ret.val.Error = "command contains potentially dangerous operations"
    /\ ~StartsSubprocess(calls)

\* the output is marked as failed
MarkedFailed(out) ==
    \/ "Error" \in DOMAIN out /\ out.Error # ""
    \/ "Type" \in DOMAIN out /\ out.Type = "error"
    \/ "Success" \in DOMAIN out /\ ~out.Success

\* ValidateInput refuses the input of the last call, in the state it ran in
InputRefused ==
    ToolValidateInput(lastOp.arg.tool, lastOp.arg.input, lastOp.before)
        # NilError

\* C15: for every tool and every input that the tool's ValidateInput
\* refuses, Execute on that input returns a non-nil error or an output
\* marked as failed (error field set, type "error" or success = false),
\* never a success result.
C15_RefusedInputNeverSucceeds ==
    (lastOp.seq > 0 /\ lastOp.op = "Execute" /\ InputRefused) =>
        (ret.err # NilError \/ MarkedFailed(ret.val))

\* op is FileWrite.Execute with file_path and content only
IsDefaultWrite(op) ==
    /\ op.seq > 0 /\ op.op = "Execute" /\ op.arg.tool = "FileWrite"
    /\ DOMAIN op.arg.input = {"file_path", "content"}
    /\ IsString(op.arg.input["file_path"])
    /\ IsString(op.arg.input["content"])
    /\ op.arg.input["file_path"].str # <<>>

\* op is FileRead.Execute of path with no offset and no limit
IsPlainRead(op, path) ==
    /\ op.seq > 0 /\ op.op = "Execute" /\ op.arg.tool = "FileRead"
    /\ DOMAIN op.arg.input = {"file_path"}
    /\ op.arg.input["file_path"] = StrV(path)

WrittenPath == lastOp.arg.input["file_path"].str
WrittenContent == lastOp.arg.input["content"].str

IsAppend(op, others) ==
    /\ op.seq > 0 /\ op.op = "Execute" /\ op.arg.tool = "FileWrite"
    /\ {"file_path", "content", "append"} \subseteq DOMAIN op.arg.input
    /\ DOMAIN op.arg.input \subseteq {"file_path", "content", "append"} \cup others
    /\ IsString(op.arg.input["file_path"])
    /\ IsString(op.arg.input["content"])
    /\ op.arg.input["append"] = BoolV(TRUE)

Succeeded(r) == r.err = NilError /\ r.val.Success

\* C17: FileWrite of c1 with default flags, then FileWrite of c2 to the same
\* file with append = true and no other flag, leaves the file with exactly
\* c1 followed by c2, no other character added.
C17_WriteThenAppendConcatenates ==
    [][ ( /\ IsDefaultWrite(lastOp) /\ Succeeded(ret)
          /\ IsAppend(lastOp', {})
          /\ lastOp'.arg.input["file_path"] = lastOp.arg.input["file_path"] ) =>
            /\ Succeeded(ret')
            /\ fs'[WrittenPath].content
                   = WrittenContent \o lastOp'.arg.input["content"].str ]_vars

\* what an appending call is to add to the file: the payload, after the
\* newline that appended writes are prefixed with unless leading_newline
\* says otherwise, and followed by a newline exactly when trailing_newline
\* = true is passed
AppendedSegment(input) ==
    (IF BoolOr(input, "leading_newline", TRUE) THEN <<"\n">> ELSE <<>>)
        \o input["content"].str
        \o (IF BoolOr(input, "trailing_newline", FALSE) THEN <<"\n">> ELSE <<>>)

ContentIn(fsys, path) == IF Exists(fsys, path) THEN fsys[path].content ELSE <<>>

\* C18: two successive FileWrite.Execute calls on the same file with
\* append = true and payloads A then B leave the file with its previous
\* content, then A, then B, with no trailing newline after either payload
\* unless trailing_newline = true is passed, in which case a newline follows
\* that payload.
C18_AppendsConcatenateInOrder ==
    [][ ( /\ IsAppend(lastOp, {"leading_newline", "trailing_newline"})
          /\ Succeeded(ret)
          /\ IsAppend(lastOp', {"leading_newline", "trailing_newline"})
          /\ lastOp'.arg.input["file_path"] = lastOp.arg.input["file_path"]
          /\ Succeeded(ret') ) =>
            fs'[WrittenPath].content
                = ContentIn(lastOp.before, WrittenPath)
                      \o AppendedSegment(lastOp.arg.input)
                      \o AppendedSegment(lastOp'.arg.input) ]_vars

\* the last call is FileEdit.Execute with its three string parameters
IsEdit ==
    /\ Called("Execute", "FileEdit")
    /\ DOMAIN lastOp.arg.input = {"file_path", "old_text", "new_text"}
    /\ \A k \in DOMAIN lastOp.arg.input : IsString(lastOp.arg.input[k])
    /\ lastOp.arg.input["old_text"].str # <<>>

EditedPath == lastOp.arg.input["file_path"].str

\* the file existed and old_text did not occur in it
OldTextAbsent ==
    /\ Exists(lastOp.before, EditedPath)
    /\ lastOp.before[EditedPath].kind = "file"
    /\ ~Contains(lastOp.before[EditedPath].content,
                 lastOp.arg.input["old_text"].str)

\* C19: FileEdit.Execute on an existing file whose content does not contain
\* old_text leaves the file (the whole filesystem) as it was and returns
\* Success = false with the not-found error, never Success = true.
C19_AbsentOldTextLeavesFile ==
    (IsEdit /\ OldTextAbsent) =>
        /\ fs = lastOp.before
        /\ ret.err = NilError
        /\ ~ret.val.Success
        /\ ret.val.Error = "Old text not found in file"

\* an edit of the existing file for a text that is not in it
C19_Witness ==
    /\ IsEdit /\ OldTextAbsent
    /\ EditedPath = fileA
    /\ lastOp.arg.input["old_text"].str = <<"q">>
    /\ ~ret.val.Success

\* the file existed and old_text occurred in it at least once
OldTextPresent ==
    /\ Exists(lastOp.before, EditedPath)
    /\ lastOp.before[EditedPath].kind = "file"
    /\ Contains(lastOp.before[EditedPath].content,
                lastOp.arg.input["old_text"].str)

\* C25: FileEdit.Execute on a file that contains old_text at least once
\* returns Success = true and leaves the file holding its previous content
\* with every occurrence of old_text replaced by new_text, for every
\* non-empty old_text and every new_text.
C25_EditReplacesEveryOccurrence ==
    (IsEdit /\ OldTextPresent) =>
        /\ Succeeded(ret)
        /\ fs[EditedPath].content =
              Replace(lastOp.before[EditedPath].content,
                      lastOp.arg.input["old_text"].str,
                      lastOp.arg.input["new_text"].str)

\* the last call is FileRead.Execute of a text file with an offset and a
\* limit
IsRangeRead ==
    /\ Called("Execute", "FileRead")
    /\ DOMAIN lastOp.arg.input = {"file_path", "offset", "limit"}
    /\ IsString(lastOp.arg.input["file_path"])
    /\ IsFloat64(lastOp.arg.input["offset"])
    /\ IsFloat64(lastOp.arg.input["limit"])
    /\ lastOp.arg.input["offset"].float64 >= 0
    /\ lastOp.arg.input["limit"].float64 > 0
    /\ Exists(lastOp.before, lastOp.arg.input["file_path"].str)
    /\ lastOp.before[lastOp.arg.input["file_path"].str].kind = "file"
    /\ ToLower(PathExt(lastOp.arg.input["file_path"].str)) \notin imageExts

\* lines o .. o+l-1 (0-based) of lines, as far as they exist
LinesFrom(lines, o, l) ==
    [i \in 1..(IF o >= Len(lines) THEN 0
               ELSE IF o + l > Len(lines) THEN Len(lines) - o ELSE l)
        |-> lines[o + i]]

\* C20: FileRead.Execute with offset o and limit l returns type "text" and
\* the lines o .. o+l-1 (0-based) of the newline-split content, joined by
\* newlines; when o is at least the number of lines the content is empty,
\* neither an error nor the whole file.
C20_OffsetThenLimitSelectsLines ==
    IsRangeRead =>
        /\ ret.err = NilError
        /\ ret.val.Type = "text"
        /\ ret.val.Content
               = Join(LinesFrom(
                     Split(lastOp.before[lastOp.arg.input["file_path"].str].content),
                     lastOp.arg.input["offset"].float64,
                     lastOp.arg.input["limit"].float64))

----------------------------------------------------------------------------
(* Properties of GrepTool.Execute and GlobTool.Execute *)

\* the last call is GrepTool.Execute and it returned an output
IsGrep == Called("Execute", "Grep") /\ ret.err = NilError

\* the cap of the last call
Cap ==
    IF HasKey(lastOp.arg.input, "max_matches")
    THEN lastOp.arg.input["max_matches"].float64 ELSE defaultMaxMatches

Last(q) == q[Len(q)]

\* the files a path of file_paths stands for
ResolvedBy(path) == GrepResolved(path, Glob(lastOp.before, path))

\* C21: GrepTool.Execute with max_matches = K >= 1 (100 when absent) returns
\* at most K matches, and when it returned K matches the K-th match is on
\* the last line it examined, in the last file it read, found through the
\* last path it resolved: nothing is examined, read or resolved after it.
C21_GrepStopsAtCap ==
    (IsGrep /\ Cap >= 1) =>
        /\ Len(ret.val.Matches) <= Cap
        /\ Len(ret.val.Matches) = Cap =>
              /\ Last(calls.examined)
                     = <<ret.val.Matches[Cap].File, ret.val.Matches[Cap].Line>>
              /\ Last(calls.read) = ret.val.Matches[Cap].File
              /\ Len(calls.resolved) <= Len(GrepFilePaths(lastOp.arg.input))
              /\ calls.resolved
                     = SubSeq(GrepFilePaths(lastOp.arg.input), 1,
                              Len(calls.resolved))
              /\ \E j \in 1..Len(ResolvedBy(Last(calls.resolved))) :
                     ResolvedBy(Last(calls.resolved))[j]
                         = ret.val.Matches[Cap].File

\* the cap was reached in the first file of the first path: its remaining
\* line, and the two paths after it, were left alone
C21_Witness ==
    /\ IsGrep /\ Cap = 1
    /\ Len(GrepFilePaths(lastOp.arg.input)) = 3
    /\ ret.val.Matches = <<GrepMatch(fileC, 1, <<"t">>)>>
    /\ calls.resolved = << <<"d", "/", "*">> >>
    /\ calls.read = <<fileC>>
    /\ calls.examined = << <<fileC, 1>> >>

\* the files Grep is to search, in order: the existing non-directory files
\* that the paths of file_paths resolve to
RECURSIVE ResolvedFiles(_)
ResolvedFiles(paths) ==
    IF paths = <<>> THEN <<>>
    ELSE SelectSeq(ResolvedBy(Head(paths)),
                   LAMBDA f : Exists(lastOp.before, f)
                                  /\ ~IsDir(lastOp.before, f))
             \o ResolvedFiles(Tail(paths))

\* one match per line of file that has the pattern in it, by line number
LineMatches(file, pattern) ==
    LET lines == Split(lastOp.before[file].content)
    IN SelectSeq([i \in 1..Len(lines) |-> GrepMatch(file, i, lines[i])],
                 LAMBDA m : Contains(m.Content, pattern))

RECURSIVE FileMatches(_, _)
FileMatches(files, pattern) ==
    IF files = <<>> THEN <<>>
    ELSE LineMatches(Head(files), pattern)
             \o FileMatches(Tail(files), pattern)

Distinct(q) == \A i, j \in 1..Len(q) : q[i] = q[j] => i = j

SearchedFiles == ResolvedFiles(GrepFilePaths(lastOp.arg.input))

\* C26: when fewer lines match than the cap allows, GrepTool.Execute over
\* distinct resolved files returns exactly one match for every line that
\* contains the pattern, with the file's path, the 1-based line number and
\* the line, in the order of file_paths and then of the lines; a file
\* without a matching line contributes nothing.
C26_GrepReturnsEveryMatchingLine ==
    ( /\ IsGrep
      /\ Distinct(SearchedFiles)
      /\ Len(FileMatches(SearchedFiles, lastOp.arg.input["pattern"].str)) < Cap )
        => ret.val.Matches
               = FileMatches(SearchedFiles, lastOp.arg.input["pattern"].str)

\* the pattern is on line 3 of one of two files and nowhere in the other
C26_Witness ==
    /\ IsGrep
    /\ SearchedFiles = <<txt("a"), txt("b")>>
    /\ lastOp.arg.input["pattern"].str = <<"t", "o">>
    /\ ret.val.Matches = <<GrepMatch(txt("a"), 3, <<"t", "o">>)>>

\* the base directory of the last call
BaseDir ==
    IF AsString(lastOp.arg.input, "base_dir").ok
           /\ AsString(lastOp.arg.input, "base_dir").v # <<>>
    THEN AsString(lastOp.arg.input, "base_dir").v ELSE Dot

\* the last call is GlobTool.Execute with a pattern without separator on an
\* existing base directory
IsFlatGlob ==
    /\ Called("Execute", "Glob") /\ ret.err = NilError
    /\ ~Contains(lastOp.arg.input["pattern"].str, <<"/">>)
    /\ IsDir(lastOp.before, BaseDir)

\* path is below dir, at any depth
Below(dir, path) ==
    /\ path # Dot
    /\ \/ dir = Dot
       \/ /\ Len(path) > Len(dir) + 1
          /\ SubSeq(path, 1, Len(dir) + 1) = dir \o <<"/">>

\* C22: GlobTool.Execute with a pattern that has no path separator returns
\* every non-directory file below base_dir, at any depth and also directly
\* in base_dir, whose name matches the pattern, and nothing else.
C22_GlobIsRecursive ==
    IsFlatGlob =>
        { ret.val.Files[i] : i \in 1..Len(ret.val.Files) }
            = { q \in DOMAIN lastOp.before :
                  /\ ~IsDir(lastOp.before, q)
                  /\ Below(BaseDir, q)
                  /\ Match(lastOp.arg.input["pattern"].str, PathBase(q)) }

(***************************************************************************)
(* Properties of one call of StreamQuery *)
(***************************************************************************)
Contents(q) == [i \in 1..Len(q) |-> q[i].Content]

\* the chunks that carry text: every chunk but an empty terminal marker
Carried(q) == SelectSeq(q, LAMBDA c : ~c.IsDone \/ c.Content # "")

IsPrefix(a, b) == Len(a) <= Len(b) /\ a = SubSeq(b, 1, Len(a))

\* what the consumer has is in network order, and nothing follows a chunk
\* with IsDone; once it saw the channel closed it has everything, ended by
\* the one chunk with IsDone
StreamDelivered ==
    proc.pc \notin {"call", "failed"} =>
        /\ IsPrefix(Contents(Carried(proc.got)), proc.arrived)
        /\ \A i \in 1..Len(proc.got) : proc.got[i].IsDone => i = Len(proc.got)
        /\ proc.consumer = "done" =>
              /\ Contents(Carried(proc.got)) = proc.arrived
              /\ proc.got # <<>>
              /\ proc.got[Len(proc.got)].IsDone

\* C23: every StreamQuery call whose consumer reads until the channel is
\* closed gets the chunks in the order the network delivered them, exactly
\* one chunk with IsDone = true, as the last one, and then sees the channel
\* closed, both when the stream ends normally and when Recv returns an
\* error.
C23_StreamEndsWithOneDoneChunk ==
    /\ [] StreamDelivered
    /\ <> (proc.pc = "failed" \/ proc.consumer \in {"stopped", "done"})

\* C27: once the context passed to StreamQuery is cancelled, or the stream
\* has ended, the producer goroutine eventually returns and closes the
\* channel, also when the consumer has stopped reading.
\* (A process that panicked has no goroutine left.)
C27_ProducerTerminates ==
    (proc.model = "OpenAIModel"
       /\ proc.pc \in {"recv", "send", "return"}
       /\ (proc.ctx = "canceled" \/ proc.ended))
        ~> (proc.pc = "panicked" \/ (proc.pc = "done" /\ proc.closed))

(***************************************************************************)
(* Properties of FileConfig *)
(***************************************************************************)
GlobalConfigPath == PathJoin(configDir, globalConfigFile)
ProjectConfigPath == PathJoin(lastOp.arg.projectPath, projectConfigFile)

\* C24: a configuration saved is the configuration loaded: GetGlobalConfig
\* returns, field by field, what the last successful SaveGlobalConfig was
\* given, and GetProjectConfig(dir) what the last successful
\* SaveProjectConfig(dir, p) was given; with no file they return the
\* defaults (DefaultModel "gpt-3.5-turbo" and an empty non-nil APIKeys map,
\* an empty ApprovedTools).  SaveGlobalConfig(nil), SaveProjectConfig("", p)
\* and SaveProjectConfig(dir, nil) return an error and change nothing.
C24_ConfigRoundTrips ==
    /\ lastOp.op = "GetGlobalConfig" =>
          /\ calls.global # Nil => ret = Return(calls.global, NilError)
          /\ ~Exists(lastOp.before, GlobalConfigPath) =>
                /\ ret.err = NilError
                /\ ret.val.DefaultModel = <<"gpt-3.5-turbo">>
                /\ ret.val.APIKeys = MapV(<<>>)
    /\ (lastOp.op = "GetProjectConfig" /\ lastOp.arg.projectPath # <<>>) =>
          /\ calls.project[lastOp.arg.projectPath] # Nil =>
                ret = Return(calls.project[lastOp.arg.projectPath], NilError)
          /\ ~Exists(lastOp.before, ProjectConfigPath) =>
                /\ ret.err = NilError
                /\ ret.val.ApprovedTools = ListV(<<>>)
    /\ (lastOp.op = "SaveGlobalConfig" /\ lastOp.arg.config = Nil) =>
          ret.err # NilError /\ fs = lastOp.before
    /\ (lastOp.op = "SaveProjectConfig"
          /\ (lastOp.arg.projectPath = <<>> \/ lastOp.arg.config = Nil)) =>
          ret.err # NilError /\ fs = lastOp.before

\* a global configuration whose API key needs escaping was saved and then
\* loaded, after a project configuration was saved
C24_Witness ==
    /\ lastOp.op = "GetGlobalConfig"
    /\ calls.global # Nil
    /\ calls.global.APIKeys # Nil
    /\ <<"o">> \in DOMAIN calls.global.APIKeys.map
    /\ ret.val.APIKeys.map[<<"o">>] = quotedKey
    /\ calls.project[projectDir] # Nil

(***************************************************************************)
(* Properties of the server's sessions and of a failing turn *)
(***************************************************************************)
\* a chat was answered, and the next request is a chat that gets its
\* session from the store
NextChat ==
    /\ host = "server"
    /\ lastOp.op = "return" /\ lastOp.arg.outcome = "done"
    /\ lastOp'.op = "handleChat" /\ pc' = "adduser"

\* C29: handleChat takes the session of the request's sessionId from the
\* store and creates one only when the store has none: a chat that follows
\* an answered chat with the same sessionId starts from a history that still
\* holds the first request's user and assistant messages, and a chat with
\* another sessionId does not get them.
C29_SessionIsKeptPerSessionId ==
    [][NextChat =>
          IF lastOp'.arg.sessionId = lastOp.arg.sessionId
          THEN IsPrefix(lastOp.arg.history, Messages')
          ELSE ~IsPrefix(lastOp.arg.history, Messages')]_vars

\* in a host's turn, the last call of the session was a Query or an
\* ExecuteTool that returned an error
Failed ==
    /\ host \in {"cli", "server"}
    /\ lastOp.op \in {"Query", "ExecuteTool"}
    /\ ret.err # NilError

\* the messages of the turn: the user message, then tool messages only
TurnMessages == SubSeq(Messages, turn.base, Len(Messages))

OnlyToolMessagesAfterUser ==
    /\ TurnMessages # <<>>
    /\ TurnMessages[1].Role = "user"
    /\ TurnMessages[1].Content = StrV(turn.message)
    /\ \A i \in 2..Len(TurnMessages) : TurnMessages[i].Role = "tool"

\* C30: when Query or ExecuteTool returns an error during a host's turn, the
\* host surfaces that error (m.err of the CLI, the body of the 500 reply of
\* handleChat) and the turn ends: the failing call appends nothing, the next
\* step is the handler's return, so no later tool call runs, no Query is
\* issued and no assistant message is appended, and the history of the
\* turn's session keeps the user message and the tool messages appended
\* before the error (for handleChat, the session as the handler leaves it).
C30_ErrorEndsTheTurn ==
    [][/\ Failed' =>
             /\ pc' = "return"
             /\ hostErr' = ret'.err
             /\ Messages' = Messages
             /\ OnlyToolMessagesAfterUser'
       /\ Failed =>
             /\ lastOp'.op = "return"
             /\ host = "cli" => (Messages' = Messages /\ hostErr' = hostErr)
             /\ host = "server" =>
                   /\ ret' = Reply(500, [error |-> ret.err])
                   /\ lastOp'.arg.history = Messages]_vars

\* the second of two tool calls names an unknown tool, after the first one
\* ran and appended its tool message
C30_Witness ==
    /\ Failed
    /\ lastOp.op = "ExecuteTool"
    /\ Len(turn.requested) = 2
    /\ Len(turn.execs) = 2
    /\ Len(TurnMessages) = 2
    /\ TurnMessages[2].Role = "tool"
    /\ pc = "return"

====
